---- MODULE Spec2Model ----
(***************************************************************************)
(* Model of PDFDocumentReader::readFromBuffer (pdfdocumentreader.cpp) and  *)
(* of PDFStandardSecurityHandler::authenticate (pdfsecurityhandler.cpp).   *)
(*                                                                         *)
(* Two specifications:                                                     *)
(*   Spec      one call of readFromBuffer: the two parallel phases, the    *)
(*             sequential security section between them, the return.       *)
(*   SpecAuth  one call of authenticate on a standard security handler,    *)
(*             one loop iteration and one provider invocation per step.    *)
(*                                                                         *)
(* std::for_each with a parallel policy may run its tasks on any number of *)
(* threads; the model lets every task that has not finished take its next  *)
(* step at any time, which contains the schedules of every pool size (one  *)
(* thread: the tasks run one after the other).                             *)
(***************************************************************************)
EXTENDS Integers, Sequences, FiniteSets, TLC

\* Largest object number of the cross-reference table (its size is MaxObjNum + 1).
MaxObjNum == 3

ObjNums == 0..MaxObjNum

-----------------------------------------------------------------------------
(* Objects (PDFObject) *)

NullObject == [type |-> "Null"]

IntObject(v) == [type |-> "Int", value |-> v]

\* The integer object of value v + wraps * 2^32, v in the range of int: a
\* PDFInteger (64 bits) that is outside the range of int when wraps # 0.
WideIntObject(wraps, v) == [type |-> "Int", value |-> v, wraps |-> wraps]

\* PDFObject::getInteger: the PDFInteger held, as its low 32 bits (signed)
\* and the multiple of 2^32 above them.
getInteger(object) ==
    [low |-> object.value, wraps |-> IF "wraps" \in DOMAIN object THEN object.wraps ELSE 0]

\* The conversion of a PDFInteger to int keeps the low 32 bits.
toInt(integer) == integer.low

NameObject(s) == [type |-> "Name", value |-> s]

StringObject(bytes) == [type |-> "String", value |-> bytes]

BoolObject(b) == [type |-> "Bool", value |-> b]

DictionaryObject(d) == [type |-> "Dictionary", dict |-> d]

StreamObject(d, content) == [type |-> "Stream", dict |-> d, data |-> content]

ArrayObject(items) == [type |-> "Array", items |-> items]

ReferenceObject(n, g) == [type |-> "Reference", objectNumber |-> n, generation |-> g]

\* What the parser yields where the bytes are no object: getObject throws.
Unparsable == [type |-> "Unparsable"]

\* PDFDictionary::get: the value of the key, the null object when absent.
Get(d, key) == IF key \in DOMAIN d THEN d[key] ELSE NullObject

PDFObjectReference(n, g) == [objectNumber |-> n, generation |-> g]

NoReference == PDFObjectReference(-1, -1)

-----------------------------------------------------------------------------
(* Cross-reference table entries (PDFXRefTable::Entry) *)

FreeEntry(n) ==
    [type |-> "Free", reference |-> PDFObjectReference(n, 0), offset |-> -1,
     objectStream |-> NoReference, objectStreamIndex |-> -1]

OccupiedEntry(n, g, off) ==
    [type |-> "Occupied", reference |-> PDFObjectReference(n, g), offset |-> off,
     objectStream |-> NoReference, objectStreamIndex |-> -1]

InObjectStreamEntry(n, c, i) ==
    [type |-> "InObjectStream", reference |-> PDFObjectReference(n, 0), offset |-> -1,
     objectStream |-> PDFObjectReference(c, 0), objectStreamIndex |-> i]

-----------------------------------------------------------------------------
(* The documents read.  A buffer is modelled by what the lexical analyzer   *)
(* and the parser find in it: the cross-reference table that readXRefTable *)
(* builds from it, the trailer dictionary, and, at the byte offset of each *)
(* occupied entry, the "objNum gen obj ... endobj" record found there.     *)

\* Ways the record at an occupied entry's offset can be wrong.
Defects == {"number", "generation", "notInt", "noObj", "noEndobj", "body"}

\* Ways the object stream stored in a container object can be built.
Variants ==
    {"badType", "noN", "noFirst", "badPair", "undeclared", "parseError", "reordered",
     "omitted", "doubled", "negative", "beyond"}

\* Objects with an odd number have been updated once.
GenerationOf(n) == n % 2

OffsetOf(n) == 10 * (n + 1)

\* Object numbers a cross-reference entry may name as its object stream: one
\* of them (MaxObjNum + 1) lies outside the table.
ContainerNums == 0..(MaxObjNum + 1)

\* A cell that is not the plain form of its kind: an object with a defect,
\* an object stream that is not built as it should be, or a member whose
\* container is no object stream of the table.
IsSpecial(cells, n) ==
    \/ cells[n].d \notin {"none", "ok"}
    \/ /\ cells[n].k = "Member"
       /\ \/ cells[n].c \notin DOMAIN cells
          \/ cells[cells[n].c].k # "ObjStm"

RECURSIVE SortedSeq(_)
SortedSeq(S) ==
    IF S = {} THEN <<>>
    ELSE LET m == CHOOSE x \in S : \A y \in S : x <= y
         IN  <<m>> \o SortedSeq(S \ {m})

\* The objects the cross-reference table stores in container c, by index.
MembersOf(cells, c) ==
    SortedSeq({n \in DOMAIN cells : cells[n].k = "Member" /\ cells[n].c = c})

IndexIn(seq, x) == CHOOSE i \in 1..Len(seq) : seq[i] = x

\* PDFXRefTable after readXRefTable: one entry per object number.
XRefOf(cells) ==
    [n \in DOMAIN cells |->
        CASE cells[n].k = "Free" -> FreeEntry(n)
          [] cells[n].k \in {"Object", "ObjStm"} ->
                OccupiedEntry(n, GenerationOf(n), OffsetOf(n))
          [] OTHER ->
                InObjectStreamEntry(n, cells[n].c,
                    IndexIn(MembersOf(cells, cells[n].c), n) - 1)]

PlainObject(n) == IntObject(10 + n)

MemberObject(n) == IntObject(20 + n)

FirstOffset == 20

RECURSIVE PairTokens(_, _)
PairTokens(pairs, i) ==
    IF i > Len(pairs) THEN <<>>
    ELSE <<pairs[i][1], pairs[i][2]>> \o PairTokens(pairs, i + 1)

\* The decoded content of an object stream: the tokens the parser reads from
\* its start, and the object found at each absolute offset.
StreamData(pairs, bad) ==
    [tokens |-> PairTokens(pairs, 1),
     at |-> [off \in {FirstOffset + pairs[i][2].value : i \in 1..Len(pairs)} |->
               LET i == CHOOSE j \in 1..Len(pairs) : FirstOffset + pairs[j][2].value = off
               IN  IF i \in bad \/ pairs[i][1].type # "Int" THEN Unparsable
                   ELSE MemberObject(pairs[i][1].value)]]

\* The container object of number c, holding `members`, built the way `variant` says.
ContainerObject(c, members, variant) ==
    LET declared == [i \in 1..Len(members) |->
                        <<IntObject(members[i]), IntObject(10 * (i - 1))>>]
        others == {x \in ObjNums : \A i \in 1..Len(members) : members[i] # x}
        stranger == CHOOSE x \in others : \A y \in others : x >= y
        pairs == CASE variant = "undeclared" ->
                        Append(declared, <<IntObject(stranger), IntObject(10 * Len(members))>>)
                   [] variant = "badPair" ->
                        Append(declared, <<NameObject("x"), IntObject(10 * Len(members))>>)
                   [] variant = "reordered" ->
                        [i \in 1..Len(declared) |-> declared[Len(declared) + 1 - i]]
                   [] variant = "negative" ->
                        Append(declared, <<IntObject(-1), IntObject(10 * Len(members))>>)
                   [] variant = "beyond" ->
                        Append(declared, <<IntObject(MaxObjNum + 1), IntObject(10 * Len(members))>>)
                   [] variant = "omitted" -> SubSeq(declared, 1, Len(declared) - 1)
                   [] variant = "doubled" -> Append(declared, declared[1])
                   [] OTHER -> declared
        bad == IF variant = "parseError" THEN {Len(pairs)} ELSE {}
        dict == [Type |-> IF variant = "badType" THEN NameObject("XRef") ELSE NameObject("ObjStm"),
                 N |-> IF variant = "noN" THEN NullObject ELSE IntObject(Len(pairs)),
                 First |-> IF variant = "noFirst" THEN NullObject ELSE IntObject(FirstOffset)]
    IN  StreamObject(dict, StreamData(pairs, bad))

\* What the parser reads at an offset: the two numbers, whether the keyword
\* obj follows, the object, whether the keyword endobj follows.
RecordAt(cells, n) ==
    LET cell == cells[n]
        g == GenerationOf(n)
    IN  [objectNumber |-> CASE cell.d = "number" -> IntObject(n + 4)
                            [] cell.d = "notInt" -> NameObject("x")
                            [] OTHER -> IntObject(n),
         generation |-> IF cell.d = "generation" THEN IntObject(g + 1) ELSE IntObject(g),
         startMark |-> cell.d # "noObj",
         object |-> CASE cell.k = "ObjStm" ->
                            ContainerObject(n, MembersOf(cells, n), cell.d)
                      [] cell.d = "body" -> Unparsable
                      [] OTHER -> PlainObject(n),
         endMark |-> cell.d # "noEndobj"]

\* The buffer, by offset.
BufferOf(cells) ==
    [off \in {OffsetOf(n) : n \in {m \in DOMAIN cells : cells[m].k \in {"Object", "ObjStm"}}} |->
        RecordAt(cells, CHOOSE n \in DOMAIN cells : OffsetOf(n) = off)]


-----------------------------------------------------------------------------
(* Exceptions *)

Return(v) == [ok |-> TRUE, value |-> v]

Throw(m) == [ok |-> FALSE, message |-> m]

Message(text, arg) == [text |-> text, arg |-> arg]

NoMessage == Message("", 0)

CantReadObject(offset) == Message("Can't read object at position %1.", offset)

\* The message of the exception the parser itself raises on bytes that are no object.
ParserError(offset) == Message("Parser error at position %1.", offset)

\* The getObject lambda of readFromBuffer: the object stored at `offset`,
\* which must be introduced by the numbers of `reference`.
SkipReferenceCheck(buf, offset, reference) ==
    LET rec == buf[offset]
    IN  IF rec.objectNumber.type # "Int" \/ rec.generation.type # "Int"
            THEN Throw(CantReadObject(offset))
        ELSE IF ~rec.startMark THEN Throw(CantReadObject(offset))
        ELSE IF rec.object = Unparsable THEN Throw(ParserError(offset))
        ELSE IF ~rec.endMark THEN Throw(CantReadObject(offset))
        ELSE Return(rec.object)

getObject(buf, offset, reference) ==
    LET rec == buf[offset]
    IN  IF rec.objectNumber.type # "Int" \/ rec.generation.type # "Int"
            THEN Throw(CantReadObject(offset))
        ELSE IF ~rec.startMark THEN Throw(CantReadObject(offset))
        ELSE IF rec.object = Unparsable THEN Throw(ParserError(offset))
        ELSE IF ~rec.endMark THEN Throw(CantReadObject(offset))
        ELSE IF PDFObjectReference(rec.objectNumber.value, rec.generation.value) # reference
            THEN Throw(CantReadObject(offset))
        ELSE Return(rec.object)


-----------------------------------------------------------------------------
(* Byte strings and the OpenSSL primitives.  The library's digests and     *)
(* ciphers are replaced by small stand-ins with the properties the code    *)
(* relies on: a digest is a function of every byte of its input and of its *)
(* length, with a fixed output length; the stream cipher XORs its input    *)
(* with a key stream that depends on the key alone, so that applying it    *)
(* twice under one key gives the input back.                               *)

Byte == 0..255

\* F applied to the value of v, a local computed once before it is used.
Local(v, F(_)) == CHOOSE result \in {F(x) : x \in {v}} : TRUE

RECURSIVE BitXor(_, _, _)
BitXor(a, b, bits) ==
    IF bits = 0 THEN 0
    ELSE ((a + b) % 2) + 2 * BitXor(a \div 2, b \div 2, bits - 1)

\* XOR of two 4-bit numbers, tabulated.
NibbleXor == [a \in 0..15 |-> [b \in 0..15 |-> BitXor(a, b, 4)]]

Xor(a, b) == 16 * NibbleXor[a \div 16][b \div 16] + NibbleXor[a % 16][b % 16]

Left(bytes, n) == IF n >= Len(bytes) THEN bytes ELSE SubSeq(bytes, 1, n)

\* A position-weighted sum of the bytes, computed by halving.
WeightedSum(bytes, lo, hi) ==
    LET sum[range \in (1..Len(bytes)) \X (0..Len(bytes))] ==
            IF range[1] > range[2] THEN 0
            ELSE IF range[1] = range[2] THEN (bytes[range[1]] + 1) * (1 + (range[1] % 251))
            ELSE (sum[<<range[1], (range[1] + range[2]) \div 2>>]
                  + sum[<<(range[1] + range[2]) \div 2 + 1, range[2]>>]) % 65521
    IN  IF lo > hi THEN 0 ELSE sum[<<lo, hi>>]

DigestOf(bytes, salt, size) ==
    Local((WeightedSum(bytes, 1, Len(bytes)) + 131 * Len(bytes) + salt) % 65521, LAMBDA h :
        [i \in 1..size |-> (h * (2 * i + 1) + (h \div (i + 1)) + 7 * i) % 256] \o <<>>)

MD5_DIGEST_LENGTH == 16

MD5(bytes) == DigestOf(bytes, 5, MD5_DIGEST_LENGTH)

KeyStream(key, seed, i) ==
    IF Len(key) = 0 THEN (13 * i) % 256
    ELSE (seed * (i + 2) + 7 * key[((i - 1) % Len(key)) + 1] + i) % 256

RC4(key, data) ==
    LET seed == WeightedSum(key, 1, Len(key))
    IN  [i \in 1..Len(data) |-> Xor(data[i], KeyStream(key, seed, i))] \o <<>>

\* The 32 bytes of PDFPasswordPadding.
PDFPasswordPadding ==
    << 40, 191,  78,  94,  78, 117, 138,  65,
      100,   0,  78,  86, 255, 250,   1,   8,
       46,  46,   0, 182, 208, 104,  62, 128,
       47,  12, 169, 254, 100,  83, 105, 122>>

\* qToLittleEndian of the permissions: the four bytes of the 32-bit two's
\* complement number v, least significant first.
LittleEndian32(v) ==
    <<v % 256, (v \div 256) % 256, (v \div 65536) % 256, (v \div 16777216) % 256>>

XorKey(key, i) == [j \in 1..Len(key) |-> Xor(key[j], i)] \o <<>>

RECURSIVE Rehash(_, _, _)
\* for (int i = 0; i < rounds; ++i) MD5 of the first keyByteLength bytes of
\* the hash, into the hash.  The rounds are run as two halves, one after the other.
Rehash(hash, keyByteLength, rounds) ==
    IF rounds = 0 THEN hash
    ELSE IF rounds = 1 THEN MD5(Left(hash, keyByteLength))
    ELSE Local(Rehash(hash, keyByteLength, rounds \div 2),
               LAMBDA half : Rehash(half, keyByteLength, rounds - rounds \div 2))


-----------------------------------------------------------------------------
(* PDFStandardSecurityHandler, revisions 2, 3 and 4 *)

createPaddedPassword32(password) ==
    LET copiedBytes == IF Len(password) < 32 THEN Len(password) ELSE 32
    IN  [i \in 1..32 |-> IF i <= copiedBytes THEN password[i]
                         ELSE PDFPasswordPadding[i - copiedBytes]] \o <<>>

KeyLengthError(keyByteLength) ==
    Message("Encryption key length (%1) exceeded maximal value of.", keyByteLength)

UnsupportedRevision(r) ==
    Message("Revision %1 of standard security handler is not supported.", r)

\* The four bytes 0xFFFFFFFF are hashed whatever EncryptMetadata says.
KeyWithMetadataBytes(h, password) ==
    IF h.m_R \in {2, 3, 4} THEN
        LET paddedPassword == createPaddedPassword32(password)
            input == paddedPassword \o h.m_O \o LittleEndian32(h.m_permissions) \o h.m_ID
                        \o <<255, 255, 255, 255>>
            fileEncryptionKey == MD5(input)
            keyByteLength == h.m_keyLength \div 8
        IN  IF keyByteLength > MD5_DIGEST_LENGTH THEN Throw(KeyLengthError(keyByteLength))
            ELSE Return(Left(Rehash(fileEncryptionKey, keyByteLength,
                                    IF h.m_R >= 3 THEN 50 ELSE 0), keyByteLength))
    ELSE IF h.m_R = 6 THEN Return(<<>>)
    ELSE Throw(UnsupportedRevision(h.m_R))

createFileEncryptionKey(h, password) ==
    IF h.m_R \in {2, 3, 4} THEN
        LET paddedPassword == createPaddedPassword32(password)
            input == paddedPassword \o h.m_O \o LittleEndian32(h.m_permissions) \o h.m_ID
                        \o (IF ~h.m_encryptMetadata THEN <<255, 255, 255, 255>> ELSE <<>>)
            fileEncryptionKey == MD5(input)
            keyByteLength == h.m_keyLength \div 8
        IN  IF keyByteLength > MD5_DIGEST_LENGTH THEN Throw(KeyLengthError(keyByteLength))
            ELSE Return(Left(Rehash(fileEncryptionKey, keyByteLength,
                                    IF h.m_R >= 3 THEN 50 ELSE 0), keyByteLength))
    ELSE IF h.m_R = 6 THEN Return(<<>>)
    ELSE Throw(UnsupportedRevision(h.m_R))

RECURSIVE EncryptPasses(_, _, _, _)
\* Passes i = from, from + 1, ..., to of the stream cipher, each under the key XOR i.
EncryptPasses(key, data, from, to) ==
    IF from > to THEN data
    ELSE IF from = to THEN RC4(XorKey(key, from), data)
    ELSE Local(EncryptPasses(key, data, from, (from + to) \div 2),
               LAMBDA half : EncryptPasses(key, half, (from + to) \div 2 + 1, to))

\* The 16 computed bytes followed by 16 zero bytes, whatever U holds.
ZeroPaddedEntryValueU(h, fileEncryptionKey) ==
    CASE h.m_R = 2 -> Return(RC4(fileEncryptionKey, PDFPasswordPadding))
      [] h.m_R \in {3, 4} ->
            LET hash == MD5(PDFPasswordPadding \o h.m_ID)
                encryptedHash == EncryptPasses(fileEncryptionKey,
                                               RC4(fileEncryptionKey, hash), 1, 19)
            IN  Return(encryptedHash \o [i \in 1..16 |-> 0])
      [] OTHER -> Throw(UnsupportedRevision(h.m_R))

createEntryValueU_r234(h, fileEncryptionKey) ==
    CASE h.m_R = 2 -> Return(RC4(fileEncryptionKey, PDFPasswordPadding))
      [] h.m_R \in {3, 4} ->
            LET hash == MD5(PDFPasswordPadding \o h.m_ID)
                encryptedHash == EncryptPasses(fileEncryptionKey,
                                               RC4(fileEncryptionKey, hash), 1, 19)
            IN  Return([i \in 1..Len(h.m_U) |->
                          IF i <= Len(encryptedHash) THEN encryptedHash[i] ELSE h.m_U[i]]
                       \o <<>>)
      [] OTHER -> Throw(UnsupportedRevision(h.m_R))

RECURSIVE DecryptPasses(_, _, _, _)
\* Passes i = from, from - 1, ..., to of the stream cipher, each under the key XOR i.
DecryptPasses(key, data, from, to) ==
    IF from < to THEN data
    ELSE IF from = to THEN RC4(XorKey(key, from), data)
    ELSE Local(DecryptPasses(key, data, from, (from + to) \div 2 + 1),
               LAMBDA half : DecryptPasses(key, half, (from + to) \div 2, to))

createUserPasswordFromOwnerPassword(h, password) ==
    LET paddedPassword == createPaddedPassword32(password)
        keyByteLength == h.m_keyLength \div 8
        hash == Rehash(MD5(paddedPassword), keyByteLength, IF h.m_R >= 3 THEN 50 ELSE 0)
    IN  IF keyByteLength > MD5_DIGEST_LENGTH THEN Throw(KeyLengthError(keyByteLength))
        ELSE CASE h.m_R = 2 -> Return(RC4(Left(hash, keyByteLength), h.m_O))
               [] h.m_R \in {3, 4} -> Return(DecryptPasses(Left(hash, keyByteLength), h.m_O, 19, 0))
               [] OTHER -> Throw(UnsupportedRevision(h.m_R))


-----------------------------------------------------------------------------
(* PDFStandardSecurityHandler, revision 6 *)

SHA256_DIGEST_LENGTH == 32

SHA384_DIGEST_LENGTH == 48

SHA512_DIGEST_LENGTH == 64

AES_BLOCK_SIZE == 16

SHA256(bytes) == DigestOf(bytes, 256, SHA256_DIGEST_LENGTH)

SHA384(bytes) == DigestOf(bytes, 384, SHA384_DIGEST_LENGTH)

SHA512(bytes) == DigestOf(bytes, 512, SHA512_DIGEST_LENGTH)

\* The stand-in for the block cipher in CBC mode: every byte of a cipher
\* block depends on the plain byte, on the key and on the block before it
\* (the initialization vector for the first block).
AES_cbc_encrypt(data, key, iv) ==
    Local(WeightedSum(key, 1, Len(key)), LAMBDA seed :
    Local([j \in 1..AES_BLOCK_SIZE |-> seed + 3 * key[((j - 1) % Len(key)) + 1] + j] \o <<>>,
          LAMBDA lane :
        [i \in 1..((Len(data) \div AES_BLOCK_SIZE) * AES_BLOCK_SIZE) |->
            LET j == ((i - 1) % AES_BLOCK_SIZE) + 1
                previous == IF i <= AES_BLOCK_SIZE THEN iv[j] ELSE data[i - AES_BLOCK_SIZE]
            IN  (data[i] + 5 * previous + lane[j]) % 256] \o <<>>))

RECURSIVE CbcDecryptBlocks(_, _, _, _)
CbcDecryptBlocks(data, key, previous, b) ==
    IF b * AES_BLOCK_SIZE > Len(data) THEN <<>>
    ELSE LET seed == WeightedSum(key, 1, Len(key))
             block == [j \in 1..AES_BLOCK_SIZE |->
                          (data[(b - 1) * AES_BLOCK_SIZE + j] - 5 * previous[j]
                           - seed - 3 * key[((j - 1) % Len(key)) + 1] - j) % 256] \o <<>>
         IN  block \o CbcDecryptBlocks(data, key, block, b + 1)

AES_cbc_decrypt(data, key, iv) == CbcDecryptBlocks(data, key, iv, 1)

ZeroVector == [j \in 1..AES_BLOCK_SIZE |-> 0] \o <<>>

\* The remainder modulo 3 as createHash_r6 accumulates it over the first 16 bytes of E.
RECURSIVE ByteRemainder(_, _, _)
ByteRemainder(byte, i, currentRemainder) ==
    IF i = 8 THEN 0
    ELSE (IF (byte \div (2 ^ i)) % 2 = 1 THEN currentRemainder ELSE 0)
         + ByteRemainder(byte, i + 1, 3 - currentRemainder)

RECURSIVE RemainderSum(_, _)
RemainderSum(E, i) ==
    IF i > 16 THEN 0 ELSE ByteRemainder(E[i], 0, 1) + RemainderSum(E, i + 1)

\* The number of the bits set in the first 16 bytes, modulo 3: every bit
\* with the weight 1.
BitCountRemainder(E) ==
    LET bits(byte) == Cardinality({i \in 0..7 : (byte \div (2 ^ i)) % 2 = 1})
    IN  (bits(E[1]) + bits(E[2]) + bits(E[3]) + bits(E[4]) + bits(E[5]) + bits(E[6])
         + bits(E[7]) + bits(E[8]) + bits(E[9]) + bits(E[10]) + bits(E[11]) + bits(E[12])
         + bits(E[13]) + bits(E[14]) + bits(E[15]) + bits(E[16])) % 3

remainderAccumulator(E) == RemainderSum(E, 1) % 3

\* switch (remainderAccumulator): the digest of E that becomes K; K is left
\* as it is for any other value.
digestBy(r, E, K) ==
    CASE r = 0 -> SHA256(E)
      [] r = 1 -> SHA384(E)
      [] r = 2 -> SHA512(E)
      [] OTHER -> K

Repeat(sequence, blockCount) ==
    LET size == Len(sequence)
    IN  [i \in 1..(blockCount * size) |-> sequence[((i - 1) % size) + 1]] \o <<>>

\* One round of the loop of createHash_r6: the new K and the E it was computed from.
HashRound(K, password, userKey) ==
    Local(password \o K \o userKey, LAMBDA sequence :
    Local(Repeat(sequence, 64), LAMBDA K1 :
    Local(SubSeq(K, 1, 16), LAMBDA key :
    Local(AES_cbc_encrypt(K1, key, SubSeq(K, 17, 32)), LAMBDA E :
    Local(remainderAccumulator(E), LAMBDA r :
        [K |-> digestBy(r, E, K),
         last |-> E[Len(E)]])))))

\* while (round < 64 || round < E.back() + 32), from the round reached.
\* K, the last byte of E, the round counter and the two constant inputs.
HashStates ==
    [K : Seq(0..255), last : 0..255, round : Nat, password : Seq(0..255), userKey : Seq(0..255)]

HashLoopFrom[at \in HashStates] ==
    IF at.round < 64 \/ at.round < at.last + 32
    THEN Local(HashRound(at.K, at.password, at.userKey),
               LAMBDA next : HashLoopFrom[[at EXCEPT !.K = next.K, !.last = next.last,
                                                    !.round = @ + 1]])
    ELSE [K |-> at.K, rounds |-> at.round]

HashLoop(K, last, round, password, userKey) ==
    HashLoopFrom[[K |-> K, last |-> last, round |-> round, password |-> password,
                  userKey |-> userKey]]

createHash_r6(h, input, inputPassword, useUserKey) ==
    Left(HashLoop(SHA256(input), 0, 0, inputPassword,
                  IF useUserKey THEN h.m_U ELSE <<>>).K, 32)

parseParts(data) ==
    [hash |-> SubSeq(data, 1, 32),
     validationSalt |-> SubSeq(data, 33, 40),
     keySalt |-> SubSeq(data, 41, 48)]


-----------------------------------------------------------------------------
(* PDFStandardSecurityHandler::authenticate *)

\* AuthorizationData(): nothing authorized, no key.
ClearedAuthorizationData == [authorizationResult |-> "Failed", fileEncryptionKey |-> <<>>]

isAuthorized(data) == data.authorizationResult \in {"OwnerAuthorized", "UserAuthorized"}

KeepAuthorizationData(data) == data

\* m_authorizationData = AuthorizationData() at the entry of authenticate.
clearAuthorizationData(data) == ClearedAuthorizationData

\* How one iteration of the loop of authenticate ends: with a return, with
\* the break that leads to the password callback, or with an exception.
Returned(result, data) ==
    [end |-> "return", result |-> result, data |-> data, message |-> NoMessage]

Break(data) ==
    [end |-> "break", result |-> "Failed", data |-> data, message |-> NoMessage]

Thrown(message, data) ==
    [end |-> "throw", result |-> "Failed", data |-> data, message |-> message]

Authorized(result, key) ==
    Returned(result, [authorizationResult |-> result, fileEncryptionKey |-> key])

UserBeforeOwner_r234(h, password) ==
    LET userPassword == createUserPasswordFromOwnerPassword(h, password)
        ownerKey == createFileEncryptionKey(h, userPassword.value)
        ownerU == createEntryValueU_r234(h, ownerKey.value)
        userKey == createFileEncryptionKey(h, password)
        userU == createEntryValueU_r234(h, userKey.value)
    IN  IF ~userPassword.ok THEN Thrown(userPassword.message, ClearedAuthorizationData)
        ELSE IF userU.value = h.m_U THEN Authorized("UserAuthorized", userKey.value)
        ELSE IF ownerU.value = h.m_U THEN Authorized("OwnerAuthorized", ownerKey.value)
        ELSE Break(ClearedAuthorizationData)

OwnerOnly_r234(h, password) ==
    LET userPassword == createUserPasswordFromOwnerPassword(h, password)
        ownerKey == createFileEncryptionKey(h, userPassword.value)
        ownerU == createEntryValueU_r234(h, ownerKey.value)
    IN  IF ~userPassword.ok THEN Thrown(userPassword.message, ClearedAuthorizationData)
        ELSE IF ownerU.value = h.m_U THEN Authorized("OwnerAuthorized", ownerKey.value)
        ELSE Break(ClearedAuthorizationData)

\* case 2, 3, 4: the owner check, then the user check.
authenticate_r234(h, password) ==
    LET userPassword == createUserPasswordFromOwnerPassword(h, password)
        ownerKey == createFileEncryptionKey(h, userPassword.value)
        ownerU == createEntryValueU_r234(h, ownerKey.value)
        userKey == createFileEncryptionKey(h, password)
        userU == createEntryValueU_r234(h, userKey.value)
    IN  IF ~userPassword.ok THEN Thrown(userPassword.message, ClearedAuthorizationData)
        ELSE IF ownerU.value = h.m_U THEN Authorized("OwnerAuthorized", ownerKey.value)
        ELSE IF userU.value = h.m_U THEN Authorized("UserAuthorized", userKey.value)
        ELSE Break(ClearedAuthorizationData)

\* case 6: the owner check, then, when it did not authorize, the user check.
authenticate_r6(h, password) ==
    LET userData == parseParts(h.m_U)
        ownerData == parseParts(h.m_O)
        ownerHash == createHash_r6(h, password \o ownerData.validationSalt \o h.m_U, password, TRUE)
        ownerDecryptionKey == createHash_r6(h, password \o ownerData.keySalt \o h.m_U, password, TRUE)
        userHash == createHash_r6(h, password \o userData.validationSalt, password, FALSE)
        userDecryptionKey == createHash_r6(h, password \o userData.keySalt, password, FALSE)
    IN  IF ownerHash = ownerData.hash
            THEN Authorized("OwnerAuthorized",
                            AES_cbc_decrypt(h.m_OE, ownerDecryptionKey, ZeroVector))
        ELSE IF userHash = userData.hash
            THEN Authorized("UserAuthorized",
                            AES_cbc_decrypt(h.m_OE, userDecryptionKey, ZeroVector))
        ELSE Break(ClearedAuthorizationData)

\* The body of the loop of authenticate for the candidate `password`.
BreakOnOtherRevision(h, password) ==
    CASE h.m_R \in {2, 3, 4} -> authenticate_r234(h, password)
      [] h.m_R = 6 -> authenticate_r6(h, password)
      [] OTHER -> Break(ClearedAuthorizationData)

tryPassword(h, password) ==
    CASE h.m_R \in {2, 3, 4} -> authenticate_r234(h, password)
      [] h.m_R = 6 -> authenticate_r6(h, password)
      [] OTHER -> Returned("Failed", ClearedAuthorizationData)


-----------------------------------------------------------------------------
(* Security handlers *)

NoneSecurityHandler == [kind |-> "None"]

StandardSecurityHandler(V, keyLength, R, O, U, OE, UE, Perms, P, encryptMetadata, id) ==
    [kind |-> "Standard", m_V |-> V, m_keyLength |-> keyLength, m_R |-> R,
     m_O |-> O, m_U |-> U, m_OE |-> OE, m_UE |-> UE, m_Perms |-> Perms,
     m_permissions |-> P, m_encryptMetadata |-> encryptMetadata, m_ID |-> id]

\* Candidate passwords: the empty one, "u", "o" and "x".
Passwords == {<<>>, <<117>>, <<111>>, <<120>>}

DocumentId == <<1, 2, 3, 4>>

Zeros(n) == [i \in 1..n |-> 0] \o <<>>

\* The O entry a writer stores for an owner and a user password: the padded
\* user password under the cipher passes that createUserPasswordFromOwnerPassword undoes.
OwnerEntry(R, keyLength, ownerPassword, userPassword) ==
    LET keyByteLength == keyLength \div 8
        key == Left(Rehash(MD5(createPaddedPassword32(ownerPassword)), keyByteLength,
                           IF R >= 3 THEN 50 ELSE 0), keyByteLength)
    IN  IF R = 2 THEN RC4(key, createPaddedPassword32(userPassword))
        ELSE EncryptPasses(key, createPaddedPassword32(userPassword), 0, 19)

\* A handler of revision R (2, 3 or 4) for a document protected with the two
\* passwords; `tail` is what the writer left in the last 16 bytes of U.
ProtectedHandler(R, keyLength, ownerPassword, userPassword, tail, encryptMetadata) ==
    LET blank == StandardSecurityHandler(IF R = 4 THEN 4 ELSE R - 1, keyLength, R,
                    OwnerEntry(R, keyLength, ownerPassword, userPassword),
                    Zeros(16) \o tail, <<>>, <<>>, <<>>, -44, encryptMetadata, DocumentId)
        U == createEntryValueU_r234(blank, createFileEncryptionKey(blank, userPassword).value).value
    IN  [blank EXCEPT !.m_U = U]


\* getName of createSecurityHandler, without a default value.
getName(dictionary, key, required) ==
    LET nameObject == Get(dictionary, key)
    IN  IF nameObject.type = "Null" THEN Return("")
        ELSE IF nameObject.type # "Name"
            THEN IF required
                 THEN Throw(Message("Invalid value for entry '%1' in encryption dictionary. Name expected.", key))
                 ELSE Return("")
        ELSE Return(nameObject.value)

\* getInt of createSecurityHandler.
getInt(dictionary, key, required, defaultValue) ==
    LET intObject == Get(dictionary, key)
    IN  IF intObject.type # "Int"
        THEN IF required
             THEN Throw(Message("Invalid value for entry '%1' in encryption dictionary. Integer expected.", key))
             ELSE Return([low |-> defaultValue, wraps |-> 0])
        ELSE Return(getInteger(intObject))

\* const int V = getInt(...), int R = getInt(...), Length = getInt(...),
\* static_cast<int>(getInt(...)): the PDFInteger returned is converted to int.
asInt(result) == IF result.ok THEN Return(toInt(result.value)) ELSE result

\* readByteArray of createSecurityHandler.
readByteArray(dictionary, key, size) ==
    LET object == Get(dictionary, key)
    IN  IF object.type = "String"
        THEN IF Len(object.value) # size
             THEN Throw(Message("Expected %1 characters long string in entry '%2'. Provided length is %3.", key))
             ELSE Return(object.value)
        ELSE Throw(Message("Expected %1 characters long string in entry '%2'.", key))

\* PDFSecurityHandler::createSecurityHandler.  The crypt filters of V = 4 and
\* V = 5 take no part in the authorization and are left out.
createSecurityHandler(encryptionDictionaryObject, id) ==
    IF encryptionDictionaryObject.type = "Null" THEN Return(NoneSecurityHandler)
    ELSE IF encryptionDictionaryObject.type # "Dictionary"
        THEN Throw(Message("Invalid encryption dictionary.", 0))
    ELSE
    LET dictionary == encryptionDictionaryObject.dict
        filterName == getName(dictionary, "Filter", TRUE)
        V == asInt(getInt(dictionary, "V", TRUE, -1))
        Length == CASE V.value = 1 -> 40
                    [] V.value \in {2, 3} -> asInt(getInt(dictionary, "Length", FALSE, 40)).value
                    [] V.value = 4 -> 128
                    [] OTHER -> 256
        R == asInt(getInt(dictionary, "R", TRUE, -1))
        size == IF R.value # 6 THEN 32 ELSE 48
        O == readByteArray(dictionary, "O", size)
        U == readByteArray(dictionary, "U", size)
        P == asInt(getInt(dictionary, "P", TRUE, -1))
        OE == readByteArray(dictionary, "OE", 32)
        UE == readByteArray(dictionary, "UE", 32)
        Perms == readByteArray(dictionary, "Perms", 16)
        encryptMetadataObject == Get(dictionary, "EncryptMetadata")
    IN  IF ~filterName.ok THEN filterName
        ELSE IF filterName.value # "Standard" THEN Throw(Message("Unknown security handler.", 0))
        ELSE IF ~V.ok THEN V
        ELSE IF V.value < 1 \/ V.value > 5
            THEN Throw(Message("Unsupported version of document encryption (V = %1).", V.value))
        ELSE IF ~R.ok THEN R
        ELSE IF R.value < 2 \/ R.value > 6 \/ R.value = 5 THEN Throw(UnsupportedRevision(R.value))
        ELSE IF ~O.ok THEN O
        ELSE IF ~U.ok THEN U
        ELSE IF ~P.ok THEN P
        ELSE IF R.value = 6 /\ ~OE.ok THEN OE
        ELSE IF R.value = 6 /\ ~UE.ok THEN UE
        ELSE IF R.value = 6 /\ ~Perms.ok THEN Perms
        ELSE Return(StandardSecurityHandler(V.value, Length, R.value, O.value, U.value,
                        IF R.value = 6 THEN OE.value ELSE <<>>,
                        IF R.value = 6 THEN UE.value ELSE <<>>,
                        IF R.value = 6 THEN Perms.value ELSE <<>>,
                        P.value,
                        IF encryptMetadataObject.type = "Bool"
                            THEN encryptMetadataObject.value ELSE TRUE,
                        id))

\* The encryption dictionary a writer stores for a handler.
EncryptionDictionary(h) ==
    DictionaryObject([Filter |-> NameObject("Standard"), V |-> IntObject(h.m_V),
                      Length |-> IntObject(h.m_keyLength), R |-> IntObject(h.m_R),
                      O |-> StringObject(h.m_O), U |-> StringObject(h.m_U),
                      P |-> IntObject(h.m_permissions)])


-----------------------------------------------------------------------------
(* The handlers authenticated and the answers of the password callback *)

\* Most candidates the password callback supplies during one authentication.
MaxAttempts == 2

KeyLengthOf(R) == IF R = 4 THEN 128 ELSE 40

\* Owner and user password pairs: different, equal, and an empty user password.
PasswordPairs == {<<(<<111>>), (<<117>>)>>, <<(<<117>>), (<<117>>)>>, <<(<<111>>), (<<>>)>>}

ProtectedHandlers ==
    {ProtectedHandler(R, KeyLengthOf(R), pp[1], pp[2], Zeros(16), TRUE) :
        R \in {2, 3, 4}, pp \in PasswordPairs}

\* Handlers createSecurityHandler never builds: a revision outside 2, 3, 4, 6
\* (0 is the revision of a handler whose fields were never set), and a key
\* longer than the digest.
OddHandlers ==
    LET h == ProtectedHandler(3, 40, <<111>>, <<117>>, Zeros(16), TRUE)
    IN  {[h EXCEPT !.m_R = 5], [h EXCEPT !.m_R = 0], [h EXCEPT !.m_keyLength = 136]}

AuthHandlers == ProtectedHandlers \cup OddHandlers

\* The loop body for every handler and candidate of the model, computed once.
TryTable ==
    {[handler |-> h, password |-> p, outcome |-> tryPassword(h, p)] :
        h \in AuthHandlers, p \in Passwords}

Try(h, p) ==
    IF h \in AuthHandlers
    THEN (CHOOSE row \in TryTable : row.handler = h /\ row.password = p).outcome
    ELSE tryPassword(h, p)

\* What the callback may answer: a candidate and the value it leaves in the flag.
Answers == [password : Passwords, obtained : BOOLEAN]

\* while (passwordObtained)
NoLoopTest(obtained) == TRUE

whileCondition(obtained) == obtained

-----------------------------------------------------------------------------
VARIABLES
    \* readFromBuffer
    xrefTable,          \* the cross-reference table read from the buffer
    buffer,             \* the records of the buffer, by offset
    trailer,            \* the trailer dictionary object
    m_successfull,
    m_errorMessage,
    m_mutex,            \* the task holding the mutex, NoTask when free
    objects,            \* the object table: generation and object per slot
    pc,                 \* where readFromBuffer is
    entryTask,          \* per object number, where its processEntry call is
    streamTask,         \* per container number, where its processObjectStream call is
    securityHandler,
    authorizationResult,
    document,           \* what readFromBuffer returned
    slotWrites,         \* per slot, how many times it was written
    slotWriters,        \* per slot, the tasks that wrote it
    failedTasks,        \* the tasks that recorded a failure
    resolver,           \* readXRefTable: the sections visited and the table merged
    fetched,            \* per task, what objectFetcher returned to its parser
    earlierRead,        \* what the read made before this one on the reader left, NoRead when none
    call,               \* the function called on its own: its arguments and what it returned
    \* authenticate
    handler,            \* the standard security handler authenticated
    currentPassword,    \* the local password of authenticate
    passwordObtained,
    m_authorizationData,
    authPc,             \* where authenticate is
    returnValue,        \* what authenticate returned
    callbackCalls,      \* invocations of the password callback
    attempts,           \* candidates tested
    hashState,          \* the createHash_r6 call running: its K, round and E.back()
    givenAnswers,       \* what the password callback answered during this call
    firstRun            \* the call of authenticate made before this one, NoRun when none

readerVars == <<xrefTable, buffer, trailer, m_successfull, m_errorMessage, m_mutex, objects,
                pc, entryTask, streamTask, securityHandler, authorizationResult, document,
                slotWrites, slotWriters, failedTasks, resolver, fetched, earlierRead, call>>

authVars == <<handler, currentPassword, passwordObtained, m_authorizationData, authPc,
              returnValue, attempts, hashState, givenAnswers, firstRun>>

vars == <<readerVars, authVars, callbackCalls>>

-----------------------------------------------------------------------------
(* authenticate, step by step *)

\* No call of createHash_r6 is running.
NoHash == [stage |-> "idle", K |-> <<>>, round |-> 0, back |-> 0]

\* authenticate was not called before.
NoRun == [handler |-> NoneSecurityHandler]

AuthIdle ==
    /\ handler = NoneSecurityHandler
    /\ currentPassword = <<>>
    /\ passwordObtained = TRUE
    /\ m_authorizationData = ClearedAuthorizationData
    /\ authPc = "idle"
    /\ returnValue = "none"
    /\ attempts = 0
    /\ hashState = NoHash
    /\ givenAnswers = <<>>
    /\ firstRun = NoRun

\* The entry of authenticate: the empty password, the flag set, the data cleared.
AuthInit ==
    /\ handler \in AuthHandlers
    /\ currentPassword = <<>>
    /\ passwordObtained = TRUE
    /\ m_authorizationData = ClearedAuthorizationData
    /\ authPc = "loop"
    /\ returnValue = "none"
    /\ attempts = 0
    /\ hashState = NoHash
    /\ givenAnswers = <<>>
    /\ firstRun = NoRun
    /\ callbackCalls = 0

AskAfterEveryAttempt(end) == "callback"

\* Where the switch of the loop body leaves authenticate: a return leaves the
\* function, a break falls through to the password callback, an exception
\* leaves the function through its caller.
afterSwitch(end) ==
    CASE end = "return" -> "returned"
      [] end = "break" -> "callback"
      [] OTHER -> "thrown"

\* One iteration of the loop, up to its return, its exception or the break;
\* m_authorizationData is written only for an accepted candidate.
AuthIterate ==
    /\ authPc = "loop"
    /\ whileCondition(passwordObtained)
    /\ \E t \in {Try(handler, currentPassword)} :
           /\ m_authorizationData' = IF isAuthorized(t.data) THEN t.data ELSE m_authorizationData
           /\ authPc' = afterSwitch(t.end)
           /\ returnValue' = IF t.end = "return" THEN t.result ELSE returnValue
    /\ attempts' = attempts + 1
    /\ UNCHANGED <<handler, currentPassword, passwordObtained, callbackCalls, hashState,
                   readerVars, givenAnswers, firstRun>>

\* The loop gives up after the first attempt.
OneAttemptOnly ==
    /\ authPc = "loop"
    /\ (~whileCondition(passwordObtained) \/ attempts >= 1)
    /\ authPc' = "returned"
    /\ returnValue' = "Cancelled"
    /\ UNCHANGED <<handler, currentPassword, passwordObtained, m_authorizationData, attempts,
                   callbackCalls, hashState, readerVars, givenAnswers, firstRun>>

\* The loop ends: return AuthorizationResult::Cancelled.
AuthCancelled ==
    /\ authPc = "loop"
    /\ ~whileCondition(passwordObtained)
    /\ authPc' = "returned"
    /\ returnValue' = "Cancelled"
    /\ UNCHANGED <<handler, currentPassword, passwordObtained, m_authorizationData, attempts,
                   callbackCalls, hashState, readerVars, givenAnswers, firstRun>>

\* What the provider may answer to its invocation number calls + 1: anything
\* in a first call of authenticate, and in a second call what it answered to
\* the invocation of that number in the first.
ProviderAnswers(earlier, calls) ==
    IF earlier # NoRun /\ calls < Len(earlier.answers)
    THEN {earlier.answers[calls + 1]}
    ELSE Answers

\* password = getPasswordCallback(&passwordObtained).toUtf8()
AuthCallback ==
    /\ authPc = "callback"
    /\ callbackCalls < MaxAttempts
    /\ \E a \in ProviderAnswers(firstRun, callbackCalls) :
          /\ currentPassword' = a.password
          /\ passwordObtained' = a.obtained
          /\ givenAnswers' = Append(givenAnswers, a)
    /\ callbackCalls' = callbackCalls + 1
    /\ authPc' = "loop"
    /\ UNCHANGED <<handler, m_authorizationData, returnValue, attempts, hashState, readerVars,
                   firstRun>>


-----------------------------------------------------------------------------
(* authenticate, revision 6, one round of createHash_r6 per step *)

Salt(n) == [i \in 1..8 |-> n + i] \o <<>>

\* The file key of the revision 6 documents.
FileKey == [i \in 1..32 |-> (7 * i) % 256] \o <<>>

\* A revision 6 handler for a document protected with the two passwords:
\* U and O hold the validation hash and the two salts, UE and OE the file
\* key encrypted under the key hashed from the password and the key salt.
ProtectedHandler_r6(ownerPassword, userPassword) ==
    LET blank == StandardSecurityHandler(5, 256, 6, <<>>, <<>>, <<>>, <<>>, Zeros(16), -44,
                                         TRUE, DocumentId)
    IN  Local(createHash_r6(blank, userPassword \o Salt(10), userPassword, FALSE) \o Salt(10)
                  \o Salt(20),
              LAMBDA U :
        Local([blank EXCEPT !.m_U = U], LAMBDA withU :
            [withU EXCEPT
                !.m_UE = AES_cbc_encrypt(FileKey,
                            createHash_r6(withU, userPassword \o Salt(20), userPassword, FALSE),
                            ZeroVector),
                !.m_O = createHash_r6(withU, ownerPassword \o Salt(30) \o U, ownerPassword, TRUE)
                            \o Salt(30) \o Salt(40),
                !.m_OE = AES_cbc_encrypt(FileKey,
                            createHash_r6(withU, ownerPassword \o Salt(40) \o U, ownerPassword, TRUE),
                            ZeroVector)]))

\* Owner and user passwords of the revision 6 documents: an empty user
\* password, an empty owner password, and neither empty.
PasswordPairs_r6 == {<<(<<111>>), (<<>>)>>, <<(<<>>), (<<117>>)>>, <<(<<111>>), (<<117>>)>>}

Handlers_r6(pairs) == {ProtectedHandler_r6(pp[1], pp[2]) : pp \in pairs}

\* Candidates the callback supplies for a revision 6 document.
Candidates_r6 == {<<117>>, <<120>>}

\* The input of each of the four calls of createHash_r6 in case 6.
inputData(h, candidate, stage) ==
    CASE stage = "ownerHash" -> candidate \o parseParts(h.m_O).validationSalt \o h.m_U
      [] stage = "ownerKey" -> candidate \o parseParts(h.m_O).keySalt \o h.m_U
      [] stage = "userHash" -> candidate \o parseParts(h.m_U).validationSalt
      [] OTHER -> candidate \o parseParts(h.m_U).keySalt

usesUserKey(stage) == stage \in {"ownerHash", "ownerKey"}

\* createHash_r6 up to its loop: K is the SHA-256 digest of the input.
StartHash(h, candidate, stage) ==
    [stage |-> stage, K |-> SHA256(inputData(h, candidate, stage)), round |-> 0, back |-> 0]

\* E.back(): the last byte of the E of the round before; E is empty until
\* the first round has run, and back() of an empty vector may give any byte.
backOf(state) == IF state.round = 0 THEN 0..255 ELSE {state.back}

\* while (round < 64 || round < E.back() + 32): the test is true.  E is
\* read only when round < 64 is false.
hashContinues(state) ==
    IF state.round < 64 THEN TRUE ELSE \E back \in backOf(state) : state.round < back + 32

\* The loop tests E.back() alone.
StopsOnBackAlone(state) == \E back \in backOf(state) : ~(state.round < back + 32)

\* while (round < 64 || round < E.back() + 32): the test is false.
hashStops(state) ==
    IF state.round < 64 THEN FALSE ELSE \E back \in backOf(state) : ~(state.round < back + 32)

\* The result of the createHash_r6 call that has left its loop.
hashResult(state) == Left(state.K, 32)

UserKeyFromUE(h) == h.m_UE

\* The source of the key decrypted when the user check matched.
UserKeySource(h) == h.m_OE

\* case 6 begins: the hash of the owner check.
R6Start ==
    /\ authPc = "loop"
    /\ whileCondition(passwordObtained)
    /\ handler.kind = "Standard"
    /\ handler.m_R = 6
    /\ hashState' = StartHash(handler, currentPassword, "ownerHash")
    /\ authPc' = "hashing"
    /\ attempts' = attempts + 1
    /\ UNCHANGED <<handler, currentPassword, passwordObtained, m_authorizationData,
                   returnValue, callbackCalls, readerVars, givenAnswers, firstRun>>

\* One round of the loop of createHash_r6.
R6Round ==
    /\ authPc = "hashing"
    /\ hashContinues(hashState)
    /\ \E k \in {hashState.K}, candidate \in {currentPassword},
          userKey \in {IF usesUserKey(hashState.stage) THEN handler.m_U ELSE <<>>} :
       \E next \in {HashRound(k, candidate, userKey)} :
          hashState' = [hashState EXCEPT !.K = next.K, !.round = @ + 1, !.back = next.last]
    /\ UNCHANGED <<handler, currentPassword, passwordObtained, m_authorizationData, authPc,
                   returnValue, attempts, callbackCalls, readerVars, givenAnswers, firstRun>>

\* if (hash == ownerData.hash): the hash of the owner key; else the user check.
R6OwnerHashDone ==
    /\ authPc = "hashing"
    /\ hashState.stage = "ownerHash"
    /\ hashStops(hashState)
    /\ hashState' = IF hashResult(hashState) = parseParts(handler.m_O).hash
                    THEN StartHash(handler, currentPassword, "ownerKey")
                    ELSE StartHash(handler, currentPassword, "userHash")
    /\ UNCHANGED <<handler, currentPassword, passwordObtained, m_authorizationData, authPc,
                   returnValue, attempts, callbackCalls, readerVars, givenAnswers, firstRun>>

\* The owner access: OE decrypted under the key hashed, then the return.
R6OwnerKeyDone ==
    /\ authPc = "hashing"
    /\ hashState.stage = "ownerKey"
    /\ hashStops(hashState)
    /\ m_authorizationData' =
          [authorizationResult |-> "OwnerAuthorized",
           fileEncryptionKey |-> AES_cbc_decrypt(handler.m_OE, hashResult(hashState), ZeroVector)]
    /\ hashState' = [hashState EXCEPT !.stage = "done"]
    /\ authPc' = "returned"
    /\ returnValue' = "OwnerAuthorized"
    /\ UNCHANGED <<handler, currentPassword, passwordObtained, attempts, callbackCalls,
                   readerVars, givenAnswers, firstRun>>

\* if (hash == userData.hash): the hash of the user key; else the break.
R6UserHashDone ==
    /\ authPc = "hashing"
    /\ hashState.stage = "userHash"
    /\ hashStops(hashState)
    /\ IF hashResult(hashState) = parseParts(handler.m_U).hash
       THEN /\ hashState' = StartHash(handler, currentPassword, "userKey")
            /\ authPc' = authPc
       ELSE /\ hashState' = [hashState EXCEPT !.stage = "done"]
            /\ authPc' = "callback"
    /\ UNCHANGED <<handler, currentPassword, passwordObtained, m_authorizationData,
                   returnValue, attempts, callbackCalls, readerVars, givenAnswers, firstRun>>

\* The user access: the key decrypted under the key hashed, then the return.
R6UserKeyDone ==
    /\ authPc = "hashing"
    /\ hashState.stage = "userKey"
    /\ hashStops(hashState)
    /\ m_authorizationData' =
          [authorizationResult |-> "UserAuthorized",
           fileEncryptionKey |-> AES_cbc_decrypt(UserKeySource(handler), hashResult(hashState),
                                                 ZeroVector)]
    /\ hashState' = [hashState EXCEPT !.stage = "done"]
    /\ authPc' = "returned"
    /\ returnValue' = "UserAuthorized"
    /\ UNCHANGED <<handler, currentPassword, passwordObtained, attempts, callbackCalls,
                   readerVars, givenAnswers, firstRun>>

\* The callback of a revision 6 document.
R6Callback ==
    /\ AuthCallback
    /\ currentPassword' \in Candidates_r6


-----------------------------------------------------------------------------
(* authenticate, called a second time *)

\* Thirty-two bytes that are the encryption of no key of the model.
OtherKeyEntry == [i \in 1..32 |-> (11 * i + 3) % 256] \o <<>>

\* The handler h and handlers that differ from it in a field that
\* createSecurityHandler sets freely: OE or UE for revision 6, the version V
\* for the others.
Relatives(h) ==
    IF h.m_R = 6
    THEN {[h EXCEPT !.m_OE = OtherKeyEntry], [h EXCEPT !.m_UE = OtherKeyEntry]}
    ELSE {h, [h EXCEPT !.m_V = @ + 1]}

\* case 2, 3, 4 and default of the switch, for the handlers other than revision 6.
AuthIterate_r234 ==
    /\ handler.m_R # 6
    /\ AuthIterate

\* authenticate has ended and is called again, on the same handler or on one
\* built from a dictionary that differs in V, OE or UE, with the same
\* provider: m_authorizationData = AuthorizationData() and the loop.
AuthAgain ==
    /\ authPc \in {"returned", "thrown"}
    /\ firstRun = NoRun
    /\ firstRun' = [handler |-> handler, answers |-> givenAnswers, end |-> authPc,
                    returnValue |-> returnValue, data |-> m_authorizationData,
                    calls |-> callbackCalls]
    /\ handler' \in Relatives(handler)
    /\ currentPassword' = <<>>
    /\ passwordObtained' = TRUE
    /\ m_authorizationData' = clearAuthorizationData(m_authorizationData)
    /\ authPc' = "loop"
    /\ returnValue' = "none"
    /\ attempts' = 0
    /\ hashState' = NoHash
    /\ givenAnswers' = <<>>
    /\ callbackCalls' = 0
    /\ UNCHANGED readerVars


-----------------------------------------------------------------------------
(* readXRefTable: the walk through the chained sections *)

\* Byte offsets at which the buffer holds a cross-reference section.
SectionOffsets == {50, 500, 1000}

\* Object numbers the sections declare.
SectionObjects == {5, 6}

\* A "previous section" offset that lies outside the buffer.
OutsideBuffer == 9999

NoSection == -1

\* What the buffer holds at each section offset: the object numbers the
\* section declares and the offset of the previous section (NoSection when
\* the trailer of the section has no such field).
SectionFiles ==
    [SectionOffsets -> [declares : (SUBSET SectionObjects) \ {{}},
                        previous : SectionOffsets \cup {NoSection, OutsideBuffer}]]

\* The byte at which the section at `offset` places object n.
ByteOf(offset, n) ==
    (CASE offset = 1000 -> 200 [] offset = 500 -> 140 [] OTHER -> 80) + (n - 5)

\* The entry of object n in the section at `offset`.
SectionEntry(offset, n) == OccupiedEntry(n, 0, ByteOf(offset, n))

\* The trailer dictionary that follows the section at `offset`.
SectionTrailer(file, offset) ==
    DictionaryObject([Size |-> IntObject(7), Prev |-> IntObject(file[offset].previous),
                      Section |-> IntObject(offset)])

\* The table after the section at `offset` is merged into `entries`: what an
\* older section declares replaces what a newer one declared.
OverwriteEntries(file, entries, offset) ==
    [n \in DOMAIN entries \cup file[offset].declares |->
        IF n \in file[offset].declares THEN SectionEntry(offset, n) ELSE entries[n]]

\* The table after the section at `offset` is merged into `entries`: an
\* object number that has an entry keeps it.
mergeSection(file, entries, offset) ==
    [n \in DOMAIN entries \cup file[offset].declares |->
        IF n \in DOMAIN entries THEN entries[n] ELSE SectionEntry(offset, n)]

ResolverIdle ==
    [pc |-> "idle", file |-> <<>>, next |-> NoSection, visited |-> <<>>, entries |-> <<>>,
     trailer |-> NullObject]

Visited(walk) == {walk.visited[i] : i \in 1..Len(walk.visited)}

\* The section at the next offset is read and merged; the trailer of the
\* first section is kept; the walk goes on to the previous section, if any.
ResolveSection ==
    /\ resolver.pc = "walk"
    /\ resolver.next \in SectionOffsets \ Visited(resolver)
    /\ resolver' =
          [resolver EXCEPT
              !.entries = mergeSection(resolver.file, @, resolver.next),
              !.visited = Append(@, resolver.next),
              !.trailer = IF resolver.visited = <<>>
                          THEN SectionTrailer(resolver.file, resolver.next) ELSE @,
              !.next = resolver.file[resolver.next].previous,
              !.pc = IF resolver.file[resolver.next].previous = NoSection
                     THEN "done" ELSE "walk"]
    /\ UNCHANGED <<xrefTable, buffer, trailer, m_successfull, m_errorMessage, m_mutex, objects,
                   pc, entryTask, streamTask, securityHandler, authorizationResult, document,
                   slotWrites, slotWriters, failedTasks, authVars, callbackCalls, fetched, earlierRead, call>>

\* The next offset was visited before: the chain has a cycle.
ResolveCycle ==
    /\ resolver.pc = "walk"
    /\ resolver.next \in Visited(resolver)
    /\ resolver' = [resolver EXCEPT !.pc = "failed"]
    /\ UNCHANGED <<xrefTable, buffer, trailer, m_successfull, m_errorMessage, m_mutex, objects,
                   pc, entryTask, streamTask, securityHandler, authorizationResult, document,
                   slotWrites, slotWriters, failedTasks, authVars, callbackCalls, fetched, earlierRead, call>>

\* The next offset is outside the buffer.
ResolveOutside ==
    /\ resolver.pc = "walk"
    /\ resolver.next \notin SectionOffsets
    /\ resolver' = [resolver EXCEPT !.pc = "failed"]
    /\ UNCHANGED <<xrefTable, buffer, trailer, m_successfull, m_errorMessage, m_mutex, objects,
                   pc, entryTask, streamTask, securityHandler, authorizationResult, document,
                   slotWrites, slotWriters, failedTasks, authVars, callbackCalls, fetched, earlierRead, call>>


-----------------------------------------------------------------------------
(* readFromBuffer: the inputs *)

\* What the trailer dictionary holds under Encrypt.
EncryptChoices ==
    {NullObject,
     EncryptionDictionary(ProtectedHandler(3, 40, <<111>>, <<117>>, Zeros(16), TRUE))}

TrailerOf(encrypt) ==
    DictionaryObject([ID |-> ArrayObject(<<StringObject(DocumentId), StringObject(DocumentId)>>),
                      Encrypt |-> encrypt])

\* The kinds of the cells of a layout.
Kinds == [ObjNums -> {"Free", "Object", "ObjStm", "Member"}]

\* The cells object n may have in a layout of the kinds `kinds` whose special
\* cell is object s (none when s = -1): a special cell is an object with a
\* defect, an object stream with a variant, or a member whose container is
\* no object stream of the table.
CellChoices(kinds, n, s) ==
    LET containers == {c \in ObjNums : kinds[c] = "ObjStm"}
    IN  CASE kinds[n] = "Free" -> {[k |-> "Free", d |-> "none", c |-> -1]}
          [] kinds[n] = "Object" ->
                {[k |-> "Object", d |-> d, c |-> -1] :
                    d \in IF n = s THEN Defects ELSE {"none"}}
          [] kinds[n] = "ObjStm" ->
                {[k |-> "ObjStm", d |-> v, c |-> -1] :
                    v \in IF n = s THEN Variants ELSE {"ok"}}
          [] OTHER ->
                {[k |-> "Member", d |-> "none", c |-> c] :
                    c \in IF n = s THEN (ContainerNums \ {n}) \ containers ELSE containers}

RECURSIVE LayoutsUpTo(_, _, _)
\* The layouts of the objects 0..n of the kinds `kinds` with the special cell s.
LayoutsUpTo(kinds, s, n) ==
    IF n < 0 THEN {<<>>}
    ELSE {[m \in 0..n |-> IF m = n THEN cell ELSE cells[m]] :
             cells \in LayoutsUpTo(kinds, s, n - 1), cell \in CellChoices(kinds, n, s)}

\* The layouts with at most one special cell, which is one of the first two
\* objects (the numbering of the others is symmetric).
AllLayouts ==
    UNION {LayoutsUpTo(kinds, s, MaxObjNum) : kinds \in Kinds, s \in {-1, 0, 1}}

\* An object stream no entry names is read as any other object is and no
\* task of the second phase runs for it: the layouts read are those whose
\* object streams each hold an object.
Layouts ==
    {cells \in AllLayouts :
        \A c \in ObjNums : cells[c].k = "ObjStm" => MembersOf(cells, c) # <<>>}

\* The documents read: an encrypted one has no free entry, and no special
\* cell but an object stored under a wrong number.
Inputs ==
    {in \in [cells : Layouts, encrypt : EncryptChoices] :
        (\E n \in ObjNums : (IsSpecial(in.cells, n) /\ in.cells[n].d # "number")
                             \/ in.cells[n].k = "Free")
            => in.encrypt = NullObject}

-----------------------------------------------------------------------------
(* readFromBuffer: the tasks *)

NoTask == [kind |-> "none", num |-> -1]

\* No call of readFromBuffer was made on the reader before this one.
NoRead == [m_successfull |-> TRUE, m_errorMessage |-> NoMessage, none |-> TRUE]

\* No function is called on its own.
NoCall == [name |-> "none"]

EntryTaskOf(n) == [kind |-> "entry", num |-> n]

StreamTaskOf(c) == [kind |-> "stream", num |-> c]

\* PDFObjectStorage::Entry
StorageEntry(generation, object) == [generation |-> generation, object |-> object]

NoStreamTask == [pc |-> "none", i |-> 0, stream |-> NullObject, exception |-> NoMessage]

\* xrefTable.getOccupiedEntries(), by object number.
getOccupiedEntries(table) == {n \in DOMAIN table : table[n].type = "Occupied"}

\* The slot processEntry writes: objects[entry.reference.objectNumber].
FirstSlot(entry) == 0

entrySlot(entry) == entry.reference.objectNumber

\* The locker leaves its scope with the mutex still locked.
KeepLocked(holder) == holder

\* ~QMutexLocker at the end of the scope of the lock: the mutex is free.
unlock(holder) == NoTask

\* if (m_successfull) at the start of processEntry
EntryStart(n) ==
    /\ pc = "entries"
    /\ entryTask[n] = "ready"
    /\ entryTask' = [entryTask EXCEPT ![n] = IF m_successfull THEN "parsing" ELSE "done"]
    /\ UNCHANGED <<xrefTable, buffer, trailer, m_successfull, m_errorMessage, m_mutex, objects,
                   pc, streamTask, securityHandler, authorizationResult, document,
                   slotWrites, slotWriters, failedTasks, authVars, callbackCalls, resolver, fetched, earlierRead, call>>

\* getObject for the entry, then the QMutexLocker of the try block or of the handler.
EntryLock(n) ==
    /\ pc = "entries"
    /\ entryTask[n] = "parsing"
    /\ m_mutex = NoTask
    /\ m_mutex' = EntryTaskOf(n)
    /\ LET entry == xrefTable[n]
           object == getObject(buffer, entry.offset, entry.reference)
       IN  entryTask' = [entryTask EXCEPT ![n] = IF object.ok THEN "writing" ELSE "failing"]
    /\ UNCHANGED <<xrefTable, buffer, trailer, m_successfull, m_errorMessage, objects,
                   pc, streamTask, securityHandler, authorizationResult, document,
                   slotWrites, slotWriters, failedTasks, authVars, callbackCalls, resolver, fetched, earlierRead, call>>

\* objects[entry.reference.objectNumber] = Entry(entry.reference.generation, object)
EntryWrite(n) ==
    /\ pc = "entries"
    /\ entryTask[n] = "writing"
    /\ LET entry == xrefTable[n]
           object == getObject(buffer, entry.offset, entry.reference)
           slot == entrySlot(entry)
       IN  /\ objects' = [objects EXCEPT ![slot] = StorageEntry(entry.reference.generation, object.value)]
           /\ slotWrites' = [slotWrites EXCEPT ![slot] = @ + 1]
           /\ slotWriters' = [slotWriters EXCEPT ![slot] = @ \cup {EntryTaskOf(n)}]
    /\ m_mutex' = unlock(m_mutex)
    /\ entryTask' = [entryTask EXCEPT ![n] = "done"]
    /\ UNCHANGED <<xrefTable, buffer, trailer, m_successfull, m_errorMessage,
                   pc, streamTask, securityHandler, authorizationResult, document,
                   failedTasks, authVars, callbackCalls, resolver, fetched, earlierRead, call>>

\* The catch block sets the flag and leaves the message as it was.
FlagOnly(message) == [m_successfull |-> FALSE, m_errorMessage |-> m_errorMessage]

\* The body of the catch block of a task, under the mutex: what it leaves
\* in the two members.
catchBlock(message) == [m_successfull |-> FALSE, m_errorMessage |-> message]

\* catch (PDFParserException exception) of processEntry
EntryFail(n) ==
    /\ pc = "entries"
    /\ entryTask[n] = "failing"
    /\ LET entry == xrefTable[n]
           object == getObject(buffer, entry.offset, entry.reference)
           caught == catchBlock(object.message)
       IN  /\ m_successfull' = caught.m_successfull
           /\ m_errorMessage' = caught.m_errorMessage
    /\ m_mutex' = unlock(m_mutex)
    /\ entryTask' = [entryTask EXCEPT ![n] = "done"]
    /\ failedTasks' = failedTasks \cup {EntryTaskOf(n)}
    /\ UNCHANGED <<xrefTable, buffer, trailer, objects,
                   pc, streamTask, securityHandler, authorizationResult, document,
                   slotWrites, slotWriters, authVars, callbackCalls, resolver, fetched, earlierRead, call>>

\* References the parsers of one read resolve through objectFetcher.
MaxFetches == 1

\* The objectFetcher lambda of readFromBuffer: what the parsing context
\* hands to the parser for a reference met in the record being read.  The
\* entry is xrefTable.getEntry(reference); an entry of an object stream
\* runs into Q_ASSERT(false) and, the assertion compiled out, gives null.
ThrowOnFree(table, buf, reference) ==
    LET entry == table[reference.objectNumber]
    IN  CASE entry.type = "Free" -> Throw(CantReadObject(entry.offset))
          [] entry.type = "Occupied" -> getObject(buf, entry.offset, reference)
          [] OTHER -> Return(NullObject)

objectFetcher(table, buf, reference) ==
    LET entry == table[reference.objectNumber]
    IN  CASE entry.type = "Free" -> Return(NullObject)
          [] entry.type = "Occupied" -> getObject(buf, entry.offset, reference)
          [] OTHER -> Return(NullObject)

\* The parser of processEntry's context meets a reference to another object
\* of the table in the record it reads and asks objectFetcher for it.
EntryResolve(n) ==
    /\ pc = "entries"
    /\ entryTask[n] = "parsing"
    /\ n \notin DOMAIN fetched
    /\ Cardinality(DOMAIN fetched) < MaxFetches
    /\ \E m \in ObjNums \ {n} :
          /\ xrefTable[m].type \in {"Free", "Occupied"}
          /\ LET reference == xrefTable[m].reference
                 object == objectFetcher(xrefTable, buffer, reference)
             IN  /\ fetched' = (n :> [reference |-> reference, result |-> object]) @@ fetched
                 /\ entryTask' = [entryTask EXCEPT ![n] = IF object.ok THEN "parsing" ELSE "caught"]
    /\ UNCHANGED <<xrefTable, buffer, trailer, m_successfull, m_errorMessage, m_mutex, objects,
                   pc, streamTask, securityHandler, authorizationResult, document,
                   slotWrites, slotWriters, failedTasks, authVars, callbackCalls, resolver,
                   earlierRead, call>>

\* catch (PDFParserException exception) of processEntry, the exception
\* raised by objectFetcher.
EntryResolveCaught(n) ==
    /\ pc = "entries"
    /\ entryTask[n] = "caught"
    /\ m_mutex = NoTask
    /\ LET caught == catchBlock(fetched[n].result.message)
       IN  /\ m_successfull' = caught.m_successfull
           /\ m_errorMessage' = caught.m_errorMessage
    /\ entryTask' = [entryTask EXCEPT ![n] = "done"]
    /\ failedTasks' = failedTasks \cup {EntryTaskOf(n)}
    /\ UNCHANGED <<xrefTable, buffer, trailer, m_mutex, objects,
                   pc, streamTask, securityHandler, authorizationResult, document,
                   slotWrites, slotWriters, authVars, callbackCalls, resolver, fetched, earlierRead, call>>


-----------------------------------------------------------------------------
(* readFromBuffer: the security section between the two phases *)

AnswerSeqs == UNION {[1..k -> Answers] : k \in 0..MaxAttempts}

\* How authenticate ended after the callback gave `calls` answers; `complete`
\* is false when it would ask for one more answer than there are.
Ended(end, result, data, message, calls, rest, complete) ==
    [end |-> end, result |-> result, data |-> data, message |-> message,
     calls |-> calls, rest |-> rest, complete |-> complete]

RECURSIVE authenticateLoop(_, _, _, _, _)
\* The whole loop of authenticate, the callback answering with `answers` in turn.
authenticateLoop(h, candidate, obtained, answers, calls) ==
    IF ~whileCondition(obtained)
    THEN Ended("return", "Cancelled", ClearedAuthorizationData, NoMessage, calls, answers, TRUE)
    ELSE Local(Try(h, candidate), LAMBDA t :
            IF t.end # "break"
            THEN Ended(t.end, t.result, t.data, t.message, calls, answers, TRUE)
            ELSE IF answers = <<>>
            THEN Ended("break", "Failed", t.data, NoMessage, calls, answers, FALSE)
            ELSE authenticateLoop(h, Head(answers).password, Head(answers).obtained,
                                  Tail(answers), calls + 1))

AskProviderFirst(h, answers) ==
    IF answers = <<>>
    THEN Ended("break", "Failed", ClearedAuthorizationData, NoMessage, 0, answers, FALSE)
    ELSE Ended("return", "OwnerAuthorized", ClearedAuthorizationData, NoMessage, 1,
               Tail(answers), TRUE)

\* PDFSecurityHandler::authenticate of either handler.
authenticate(h, answers) ==
    IF h.kind = "None"
    THEN Ended("return", "OwnerAuthorized", ClearedAuthorizationData, NoMessage, 0, answers, TRUE)
    ELSE authenticateLoop(h, <<>>, TRUE, answers, 0)

\* The document ID: the first item of the trailer's ID array, when a string.
documentId(trailerDictionary) ==
    LET idArrayObject == Get(trailerDictionary, "ID")
    IN  IF idArrayObject.type = "Array" /\ Len(idArrayObject.items) > 0
           /\ idArrayObject.items[1].type = "String"
        THEN idArrayObject.items[1].value
        ELSE <<>>

\* The Encrypt entry of the trailer, a reference replaced by the slot it names.
encryptObjectOf(trailerDictionary, table) ==
    LET encryptObject == Get(trailerDictionary, "Encrypt")
    IN  IF encryptObject.type = "Reference"
           /\ encryptObject.objectNumber \in DOMAIN table
           /\ table[encryptObject.objectNumber].generation = encryptObject.generation
        THEN table[encryptObject.objectNumber].object
        ELSE encryptObject

AuthorizationFailed == Message("Authorization failed. Bad password provided.", 0)

NoHandler == [kind |-> "unset"]

\* if (result == Failed || result == Cancelled) throw ...
OnlyFailedIsRefused(result) == result = "Failed"

isRefused(result) == result \in {"Failed", "Cancelled"}

\* The security section left by an exception.
SectionThrown(message, result, run) ==
    [ok |-> FALSE, message |-> message, handler |-> NoHandler, result |-> result,
     calls |-> run.calls, rest |-> run.rest, complete |-> run.complete]

\* The handler and the authorization (the section from the trailer to the
\* test of the authorization result), or the exception thrown.
securitySection(trailerObject, table, answers) ==
    IF trailerObject.type \notin {"Dictionary", "Stream"}
    THEN SectionThrown(Message("Invalid trailer dictionary.", 0), "none",
                       [calls |-> 0, rest |-> answers, complete |-> TRUE])
    ELSE Local(createSecurityHandler(encryptObjectOf(trailerObject.dict, table),
                                     documentId(trailerObject.dict)),
               LAMBDA created :
            IF ~created.ok
            THEN SectionThrown(created.message, "none",
                               [calls |-> 0, rest |-> answers, complete |-> TRUE])
            ELSE Local(authenticate(created.value, answers), LAMBDA run :
                    IF run.end = "throw" THEN SectionThrown(run.message, "none", run)
                    ELSE IF isRefused(run.result)
                    THEN SectionThrown(AuthorizationFailed, run.result, run)
                    ELSE [ok |-> TRUE, message |-> NoMessage,
                          handler |-> [handler |-> created.value, data |-> run.data],
                          result |-> run.result, calls |-> run.calls, rest |-> run.rest,
                          complete |-> run.complete]))

\* The set objectStreams: the containers the InObjectStream entries name.
objectStreamsOf(table) ==
    {table[n].objectStream.objectNumber : n \in {m \in DOMAIN table : table[m].type = "InObjectStream"}}

EmptyDocument == [kind |-> "empty"]

\* The calling thread goes on without waiting for the tasks.
NoJoin(tasks) == TRUE

\* std::for_each with the parallel policy returns: every call it made has returned.
forEachReturned(tasks) == \A n \in DOMAIN tasks : tasks[n] \in {"none", "done"}

\* The join of the first phase, then the security section, on the calling thread.
Security ==
    /\ pc = "entries"
    /\ forEachReturned(entryTask)
    /\ \E answers \in AnswerSeqs :
       \E sec \in {securitySection(trailer, objects, answers)} :
          /\ sec.complete
          /\ sec.rest = <<>>
          /\ callbackCalls' = sec.calls
          /\ authorizationResult' = sec.result
          /\ IF sec.ok
             THEN /\ securityHandler' = sec.handler
                  /\ streamTask' = [c \in ContainerNums |->
                        IF c \in objectStreamsOf(xrefTable)
                        THEN [NoStreamTask EXCEPT !.pc = "ready"] ELSE NoStreamTask]
                  /\ pc' = "streams"
                  /\ UNCHANGED <<m_successfull, m_errorMessage, document>>
             ELSE /\ m_successfull' = FALSE
                  /\ m_errorMessage' = sec.message
                  /\ document' = EmptyDocument
                  /\ pc' = "returned"
                  /\ UNCHANGED <<securityHandler, streamTask>>
    /\ UNCHANGED <<xrefTable, buffer, trailer, m_mutex, objects, entryTask,
                   slotWrites, slotWriters, failedTasks, authVars, resolver, fetched, earlierRead, call>>


-----------------------------------------------------------------------------
(* readFromBuffer: the object streams *)

ObjectStreamNotFound(c) == Message("Object stream %1 not found.", c)

ObjectStreamInvalid(c) == Message("Object stream %1 is invalid.", c)

\* The token the parser reads at position k of the decoded stream.
TokenAt(data, k) == IF k <= Len(data.tokens) THEN data.tokens[k] ELSE NullObject

RECURSIVE objectNumberAndOffset(_, _, _, _)
\* The first loop of processObjectStream: n pairs of integers, or none when
\* one of the 2n objects read is no integer.
objectNumberAndOffset(data, n, first, i) ==
    IF i >= n THEN Return(<<>>)
    ELSE LET currentObjectNumber == TokenAt(data, 2 * i + 1)
             currentOffset == TokenAt(data, 2 * i + 2)
             rest == objectNumberAndOffset(data, n, first, i + 1)
         IN  IF currentObjectNumber.type # "Int" \/ currentOffset.type # "Int" THEN Throw(i)
             ELSE IF ~rest.ok THEN rest
             ELSE Return(<<(<<currentObjectNumber.value, currentOffset.value + first>>)>>
                         \o rest.value)

\* processObjectStream up to its second loop: the container read from the
\* object table and the list of the pairs of its header.
objectStreamHeader(table, c) ==
    IF c >= Cardinality(DOMAIN table) THEN Throw(ObjectStreamNotFound(c))
    ELSE LET object == table[c].object
         IN  IF object.type # "Stream" THEN Throw(ObjectStreamInvalid(c))
             ELSE LET objectStreamType == Get(object.dict, "Type")
                      nObject == Get(object.dict, "N")
                      firstObject == Get(object.dict, "First")
                      list == objectNumberAndOffset(object.data, nObject.value,
                                                    firstObject.value, 0)
                  IN  IF objectStreamType.type # "Name" \/ objectStreamType.value # "ObjStm"
                          THEN Throw(ObjectStreamInvalid(c))
                      ELSE IF nObject.type # "Int" \/ firstObject.type # "Int"
                          THEN Throw(ObjectStreamInvalid(c))
                      ELSE IF ~list.ok THEN Throw(ObjectStreamInvalid(c))
                      ELSE Return([stream |-> object, list |-> list.value])

\* The list of pairs of a container already read.
PairsOf(stream) ==
    objectNumberAndOffset(stream.data, stream.dict.N.value, stream.dict.First.value, 0).value

\* The predicate holds for every number.
NoPredicate(table, objectNumber, c) == TRUE

\* The predicate of the second loop: the cross-reference table stores the
\* object number in this container.
DeclaredAnywhere(table, objectNumber, c) ==
    \E n \in DOMAIN table :
        /\ table[n].type = "InObjectStream"
        /\ table[n].reference.objectNumber = objectNumber

declaredIn(table, objectNumber, c) ==
    \E n \in DOMAIN table :
        /\ table[n].type = "InObjectStream"
        /\ table[n].reference.objectNumber = objectNumber
        /\ table[n].objectStream = PDFObjectReference(c, 0)

\* One turn of the second loop: the object parsed at the pair's offset and
\* whether it may be written.
pairStep(table, c, stream, i) ==
    LET pair == PairsOf(stream)[i]
        object == IF pair[2] \in DOMAIN stream.data.at THEN stream.data.at[pair[2]]
                  ELSE Unparsable
    IN  IF object = Unparsable THEN Throw(ParserError(pair[2]))
        ELSE IF declaredIn(table, pair[1], c) THEN Return([slot |-> pair[1], object |-> object])
        ELSE Throw(ObjectStreamInvalid(c))

\* if (!m_successfull) return;
StreamStart(c) ==
    /\ pc = "streams"
    /\ streamTask[c].pc = "ready"
    /\ streamTask' = [streamTask EXCEPT ![c].pc = IF m_successfull THEN "header" ELSE "done"]
    /\ UNCHANGED <<xrefTable, buffer, trailer, m_successfull, m_errorMessage, m_mutex, objects,
                   pc, entryTask, securityHandler, authorizationResult, document,
                   slotWrites, slotWriters, failedTasks, authVars, callbackCalls, resolver, fetched, earlierRead, call>>

\* The container is read from the object table, without the lock, and its header parsed.
StreamHeader(c) ==
    /\ pc = "streams"
    /\ streamTask[c].pc = "header"
    /\ LET header == objectStreamHeader(objects, c)
       IN  streamTask' = [streamTask EXCEPT ![c] =
              IF header.ok
              THEN [pc |-> "pairs", i |-> 1, stream |-> header.value.stream, exception |-> NoMessage]
              ELSE [pc |-> "caught", i |-> 0, stream |-> NullObject, exception |-> header.message]]
    /\ UNCHANGED <<xrefTable, buffer, trailer, m_successfull, m_errorMessage, m_mutex, objects,
                   pc, entryTask, securityHandler, authorizationResult, document,
                   slotWrites, slotWriters, failedTasks, authVars, callbackCalls, resolver, fetched, earlierRead, call>>

\* The exception of the header reaches the handler, which takes the lock.
StreamCaught(c) ==
    /\ pc = "streams"
    /\ streamTask[c].pc = "caught"
    /\ m_mutex = NoTask
    /\ m_mutex' = StreamTaskOf(c)
    /\ streamTask' = [streamTask EXCEPT ![c].pc = "failing"]
    /\ UNCHANGED <<xrefTable, buffer, trailer, m_successfull, m_errorMessage, objects,
                   pc, entryTask, securityHandler, authorizationResult, document,
                   slotWrites, slotWriters, failedTasks, authVars, callbackCalls, resolver, fetched, earlierRead, call>>

\* The second loop ends.
StreamDone(c) ==
    /\ pc = "streams"
    /\ streamTask[c].pc = "pairs"
    /\ streamTask[c].i > Len(PairsOf(streamTask[c].stream))
    /\ streamTask' = [streamTask EXCEPT ![c].pc = "done"]
    /\ UNCHANGED <<xrefTable, buffer, trailer, m_successfull, m_errorMessage, m_mutex, objects,
                   pc, entryTask, securityHandler, authorizationResult, document,
                   slotWrites, slotWriters, failedTasks, authVars, callbackCalls, resolver, fetched, earlierRead, call>>

\* One pair: the object is parsed and checked, then the lock is taken, for
\* the write or in the handler of the exception.
StreamPair(c) ==
    /\ pc = "streams"
    /\ streamTask[c].pc = "pairs"
    /\ streamTask[c].i <= Len(PairsOf(streamTask[c].stream))
    /\ m_mutex = NoTask
    /\ m_mutex' = StreamTaskOf(c)
    /\ LET step == pairStep(xrefTable, c, streamTask[c].stream, streamTask[c].i)
       IN  streamTask' = [streamTask EXCEPT ![c] =
              IF step.ok THEN [@ EXCEPT !.pc = "writing"]
              ELSE [@ EXCEPT !.pc = "failing", !.exception = step.message]]
    /\ UNCHANGED <<xrefTable, buffer, trailer, m_successfull, m_errorMessage, objects,
                   pc, entryTask, securityHandler, authorizationResult, document,
                   slotWrites, slotWriters, failedTasks, authVars, callbackCalls, resolver, fetched, earlierRead, call>>

\* objects[objectNumber].object = qMove(object)
StreamWrite(c) ==
    /\ pc = "streams"
    /\ streamTask[c].pc = "writing"
    /\ LET step == pairStep(xrefTable, c, streamTask[c].stream, streamTask[c].i).value
       IN  /\ objects' = [objects EXCEPT ![step.slot].object = step.object]
           /\ slotWrites' = [slotWrites EXCEPT ![step.slot] = @ + 1]
           /\ slotWriters' = [slotWriters EXCEPT ![step.slot] = @ \cup {StreamTaskOf(c)}]
    /\ m_mutex' = unlock(m_mutex)
    /\ streamTask' = [streamTask EXCEPT ![c].pc = "pairs", ![c].i = @ + 1]
    /\ UNCHANGED <<xrefTable, buffer, trailer, m_successfull, m_errorMessage,
                   pc, entryTask, securityHandler, authorizationResult, document,
                   failedTasks, authVars, callbackCalls, resolver, fetched, earlierRead, call>>

\* catch (PDFParserException exception) of processObjectStream
StreamFail(c) ==
    /\ pc = "streams"
    /\ streamTask[c].pc = "failing"
    /\ LET caught == catchBlock(streamTask[c].exception)
       IN  /\ m_successfull' = caught.m_successfull
           /\ m_errorMessage' = caught.m_errorMessage
    /\ m_mutex' = unlock(m_mutex)
    /\ streamTask' = [streamTask EXCEPT ![c].pc = "done"]
    /\ failedTasks' = failedTasks \cup {StreamTaskOf(c)}
    /\ UNCHANGED <<xrefTable, buffer, trailer, objects,
                   pc, entryTask, securityHandler, authorizationResult, document,
                   slotWrites, slotWriters, authVars, callbackCalls, resolver, fetched, earlierRead, call>>

\* The document returned with the object table moved into its storage.
StorageDocument(table, trailerObject, h) ==
    [kind |-> "storage", objects |-> table, trailer |-> trailerObject, securityHandler |-> h]

\* The join of the second phase, then the return of the document.
ReturnDocument ==
    /\ pc = "streams"
    /\ \A c \in ContainerNums : streamTask[c].pc \in {"none", "done"}
    /\ document' = StorageDocument(objects, trailer, securityHandler)
    /\ pc' = "returned"
    /\ UNCHANGED <<xrefTable, buffer, trailer, m_successfull, m_errorMessage, m_mutex, objects,
                   entryTask, streamTask, securityHandler, authorizationResult,
                   slotWrites, slotWriters, failedTasks, authVars, callbackCalls, resolver, fetched, earlierRead, call>>

-----------------------------------------------------------------------------
(* readFromBuffer: the security handler created from the Encrypt value *)

\* The key is not in the dictionary.
Absent == [type |-> "Absent"]

FilterValues == {Absent, NameObject("Standard"), NameObject("Adobe.PubSec"), StringObject(<<83>>)}

\* V and R: absent, below, inside and above the accepted values, and
\* 2^32 + 2 and 2^32 + 3, integers that PDFInteger holds and int does not.
VValues == {Absent, WideIntObject(1, 2)} \cup {IntObject(v) : v \in {0, 1, 2, 4, 5, 6}}

RValues == {WideIntObject(1, 3)} \cup {IntObject(r) : r \in 1..7}

OValues == {Absent} \cup {StringObject(Zeros(n)) : n \in {31, 32, 48}}

UValues == {NameObject("U")} \cup {StringObject(Zeros(n)) : n \in {32, 33, 48}}

\* OE, UE and Perms: of the sizes of revision 6, one of them of another
\* size, Perms or all three absent.
KeyEntryValues ==
    LET sized == [OE |-> StringObject(Zeros(32)), UE |-> StringObject(Zeros(32)),
                  Perms |-> StringObject(Zeros(16))]
    IN  {sized,
         [sized EXCEPT !.OE = StringObject(Zeros(31))],
         [sized EXCEPT !.UE = StringObject(Zeros(33))],
         [sized EXCEPT !.Perms = StringObject(Zeros(15))],
         [sized EXCEPT !.Perms = Absent],
         [OE |-> Absent, UE |-> Absent, Perms |-> Absent]}

\* The dictionary object that holds the entries that are not absent.
DictionaryOf(entries) ==
    DictionaryObject([key \in {k \in DOMAIN entries : entries[k] # Absent} |-> entries[key]])

\* The values of the Encrypt entry: dictionaries, and objects of other types.
EncryptValues ==
    {DictionaryOf([Filter |-> filter, V |-> v, R |-> r, O |-> o, U |-> u, P |-> IntObject(-44),
                   OE |-> keys.OE, UE |-> keys.UE, Perms |-> keys.Perms]) :
        filter \in FilterValues, v \in VValues, r \in RValues, o \in OValues, u \in UValues,
        keys \in KeyEntryValues}
    \cup {IntObject(1), NameObject("Standard"), StringObject(Zeros(32)), BoolObject(TRUE),
          ArrayObject(<<>>), ReferenceObject(9, 0)}

\* The security section up to createSecurityHandler (lines 274 to 316);
\* its exception is caught at the end of readFromBuffer, which returns the
\* empty document.
CreateHandler ==
    /\ pc = "security"
    /\ \E created \in {createSecurityHandler(encryptObjectOf(trailer.dict, objects),
                                             documentId(trailer.dict))} :
          IF created.ok
          THEN /\ securityHandler' = [handler |-> created.value,
                                      data |-> ClearedAuthorizationData]
               /\ pc' = "created"
               /\ UNCHANGED <<m_successfull, m_errorMessage, document>>
          ELSE /\ m_successfull' = FALSE
               /\ m_errorMessage' = created.message
               /\ document' = EmptyDocument
               /\ pc' = "returned"
               /\ UNCHANGED securityHandler
    /\ UNCHANGED <<xrefTable, buffer, trailer, m_mutex, objects, entryTask, streamTask,
                   authorizationResult, slotWrites, slotWriters, failedTasks, authVars,
                   callbackCalls, resolver, fetched, earlierRead, call>>


-----------------------------------------------------------------------------
(* The specifications *)

\* No read runs on the reader.
ReaderAtRest ==
    /\ resolver = ResolverIdle
    /\ fetched = <<>>
    /\ earlierRead = NoRead
    /\ xrefTable = <<>>
    /\ buffer = <<>>
    /\ trailer = NullObject
    /\ m_successfull = TRUE
    /\ m_errorMessage = NoMessage
    /\ m_mutex = NoTask
    /\ objects = <<>>
    /\ pc = "idle"
    /\ entryTask = <<>>
    /\ streamTask = <<>>
    /\ securityHandler = NoHandler
    /\ authorizationResult = "none"
    /\ document = [kind |-> "none"]
    /\ slotWrites = <<>>
    /\ slotWriters = <<>>
    /\ failedTasks = {}

ReaderIdle == ReaderAtRest /\ call = NoCall

\* readFromBuffer after the footer and the header were checked and the
\* cross-reference table was read: the object table is sized, no task has started.
Init ==
    /\ resolver = ResolverIdle
    /\ fetched = <<>>
    /\ earlierRead = NoRead
    /\ call = NoCall
    /\ \E in \in Inputs :
          /\ xrefTable = XRefOf(in.cells)
          /\ buffer = BufferOf(in.cells)
          /\ trailer = TrailerOf(in.encrypt)
    /\ m_successfull = TRUE
    /\ m_errorMessage = NoMessage
    /\ m_mutex = NoTask
    /\ objects = [n \in ObjNums |-> StorageEntry(0, NullObject)]
    /\ pc = "entries"
    /\ entryTask = [n \in ObjNums |->
                       IF n \in getOccupiedEntries(xrefTable) THEN "ready" ELSE "none"]
    /\ streamTask = [c \in ContainerNums |-> NoStreamTask]
    /\ securityHandler = NoHandler
    /\ authorizationResult = "none"
    /\ document = [kind |-> "none"]
    /\ slotWrites = [n \in ObjNums |-> 0]
    /\ slotWriters = [n \in ObjNums |-> {}]
    /\ failedTasks = {}
    /\ callbackCalls = 0
    /\ AuthIdle

Next ==
    \/ \E n \in ObjNums : EntryStart(n) \/ EntryLock(n) \/ EntryWrite(n) \/ EntryFail(n)
    \/ Security
    \/ \E c \in ContainerNums :
          \/ StreamStart(c) \/ StreamHeader(c) \/ StreamCaught(c) \/ StreamDone(c)
          \/ StreamPair(c) \/ StreamWrite(c) \/ StreamFail(c)
    \/ ReturnDocument

Spec == Init /\ [][Next]_vars

InitAuth == ReaderIdle /\ AuthInit

NextAuth == AuthIterate \/ AuthCancelled \/ AuthCallback

SpecAuth == InitAuth /\ [][NextAuth]_vars

InitR6 ==
    /\ ReaderIdle
    /\ handler \in Handlers_r6(PasswordPairs_r6)
    /\ currentPassword = <<>>
    /\ passwordObtained = TRUE
    /\ m_authorizationData = ClearedAuthorizationData
    /\ authPc = "loop"
    /\ returnValue = "none"
    /\ attempts = 0
    /\ hashState = NoHash
    /\ givenAnswers = <<>>
    /\ firstRun = NoRun
    /\ callbackCalls = 0

NextR6 ==
    \/ R6Start \/ R6Round \/ R6OwnerHashDone \/ R6OwnerKeyDone \/ R6UserHashDone
    \/ R6UserKeyDone \/ R6Callback \/ AuthCancelled

SpecR6 == InitR6 /\ [][NextR6]_vars

\* Revision 6 documents that the empty password opens: as user, as owner.
PasswordPairs_twice == {<<(<<111>>), (<<>>)>>, <<(<<>>), (<<117>>)>>}

InitTwice ==
    /\ ReaderIdle
    /\ handler \in AuthHandlers \cup Handlers_r6(PasswordPairs_twice)
    /\ currentPassword = <<>>
    /\ passwordObtained = TRUE
    /\ m_authorizationData = ClearedAuthorizationData
    /\ authPc = "loop"
    /\ returnValue = "none"
    /\ attempts = 0
    /\ hashState = NoHash
    /\ givenAnswers = <<>>
    /\ firstRun = NoRun
    /\ callbackCalls = 0

NextTwice ==
    \/ AuthIterate_r234 \/ AuthCancelled \/ AuthCallback
    \/ R6Start \/ R6Round \/ R6OwnerHashDone \/ R6OwnerKeyDone \/ R6UserHashDone
    \/ R6UserKeyDone
    \/ AuthAgain

SpecTwice == InitTwice /\ [][NextTwice]_vars

\* readFromBuffer at createSecurityHandler, the object table empty.
InitCreate ==
    /\ resolver = ResolverIdle
    /\ fetched = <<>>
    /\ earlierRead = NoRead
    /\ call = NoCall
    /\ xrefTable = <<>>
    /\ buffer = <<>>
    /\ trailer \in {TrailerOf(encrypt) : encrypt \in EncryptValues}
    /\ m_successfull = TRUE
    /\ m_errorMessage = NoMessage
    /\ m_mutex = NoTask
    /\ objects = <<>>
    /\ pc = "security"
    /\ entryTask = <<>>
    /\ streamTask = <<>>
    /\ securityHandler = NoHandler
    /\ authorizationResult = "none"
    /\ document = [kind |-> "none"]
    /\ slotWrites = <<>>
    /\ slotWriters = <<>>
    /\ failedTasks = {}
    /\ callbackCalls = 0
    /\ AuthIdle

NextCreate == CreateHandler

SpecCreate == InitCreate /\ [][NextCreate]_vars

\* readXRefTable(nullptr, buffer, firstXrefTableOffset) on a buffer of chained sections.
InitXRef ==
    /\ \E file \in SectionFiles, firstXrefTableOffset \in SectionOffsets :
          resolver = [ResolverIdle EXCEPT !.pc = "walk", !.file = file,
                                          !.next = firstXrefTableOffset]
    /\ fetched = <<>>
    /\ earlierRead = NoRead
    /\ call = NoCall
    /\ xrefTable = <<>>
    /\ buffer = <<>>
    /\ trailer = NullObject
    /\ m_successfull = TRUE
    /\ m_errorMessage = NoMessage
    /\ m_mutex = NoTask
    /\ objects = <<>>
    /\ pc = "idle"
    /\ entryTask = <<>>
    /\ streamTask = <<>>
    /\ securityHandler = NoHandler
    /\ authorizationResult = "none"
    /\ document = [kind |-> "none"]
    /\ slotWrites = <<>>
    /\ slotWriters = <<>>
    /\ failedTasks = {}
    /\ callbackCalls = 0
    /\ AuthIdle

NextXRef == ResolveSection \/ ResolveCycle \/ ResolveOutside

SpecXRef == InitXRef /\ [][NextXRef]_vars

\* The layouts in which both of the first two objects are special cells.
DamagedLayouts ==
    LET second(kinds) ==
            IF \A m \in ObjNums \ {1} : CellChoices(kinds, m, 1) # {}
            THEN CellChoices(kinds, 1, 1)
            ELSE {}
    IN  {cells \in UNION {{[n \in ObjNums |-> IF n = 1 THEN cell ELSE a[n]] :
                              a \in LayoutsUpTo(kinds, 0, MaxObjNum),
                              cell \in second(kinds)} :
                          kinds \in [ObjNums -> {"Object", "ObjStm", "Member"}]} :
            /\ IsSpecial(cells, 0) /\ IsSpecial(cells, 1)
            /\ \A c \in ObjNums : cells[c].k = "ObjStm" => MembersOf(cells, c) # <<>>}

\* readFromBuffer on an unencrypted buffer with two damaged records.
InitDamaged ==
    /\ resolver = ResolverIdle
    /\ fetched = <<>>
    /\ earlierRead = NoRead
    /\ call = NoCall
    /\ \E cells \in DamagedLayouts :
          /\ xrefTable = XRefOf(cells)
          /\ buffer = BufferOf(cells)
          /\ trailer = TrailerOf(NullObject)
    /\ m_successfull = TRUE
    /\ m_errorMessage = NoMessage
    /\ m_mutex = NoTask
    /\ objects = [n \in ObjNums |-> StorageEntry(0, NullObject)]
    /\ pc = "entries"
    /\ entryTask = [n \in ObjNums |->
                       IF n \in getOccupiedEntries(xrefTable) THEN "ready" ELSE "none"]
    /\ streamTask = [c \in ContainerNums |-> NoStreamTask]
    /\ securityHandler = NoHandler
    /\ authorizationResult = "none"
    /\ document = [kind |-> "none"]
    /\ slotWrites = [n \in ObjNums |-> 0]
    /\ slotWriters = [n \in ObjNums |-> {}]
    /\ failedTasks = {}
    /\ callbackCalls = 0
    /\ AuthIdle

SpecDamaged == InitDamaged /\ [][Next]_vars

\* readFromBuffer on a buffer whose object 0 is free, as the head of the
\* list of free entries is, the records holding references the parser resolves.
InitFetch == Init /\ xrefTable[0].type = "Free"

NextFetch ==
    \/ Next
    \/ \E n \in ObjNums : EntryResolve(n) \/ EntryResolveCaught(n)

SpecFetch == InitFetch /\ [][NextFetch]_vars

\* The layouts without a special cell: every record is sound and every
\* object stream holds the objects the table stores in it.
ValidLayouts == {cells \in Layouts : \A n \in ObjNums : ~IsSpecial(cells, n)}

\* The locals of readFromBuffer when it is called on the reader again, on
\* an unencrypted buffer of a valid layout.
BeginRead ==
    /\ pc = "returned"
    /\ earlierRead = NoRead
    /\ earlierRead' = [m_successfull |-> m_successfull, m_errorMessage |-> m_errorMessage]
    /\ \E cells \in ValidLayouts :
          /\ xrefTable' = XRefOf(cells)
          /\ buffer' = BufferOf(cells)
          /\ trailer' = TrailerOf(NullObject)
          /\ entryTask' = [n \in ObjNums |->
                IF n \in getOccupiedEntries(XRefOf(cells)) THEN "ready" ELSE "none"]
    /\ m_mutex' = NoTask
    /\ objects' = [n \in ObjNums |-> StorageEntry(0, NullObject)]
    /\ pc' = "entries"
    /\ streamTask' = [c \in ContainerNums |-> NoStreamTask]
    /\ securityHandler' = NoHandler
    /\ authorizationResult' = "none"
    /\ document' = [kind |-> "none"]
    /\ slotWrites' = [n \in ObjNums |-> 0]
    /\ slotWriters' = [n \in ObjNums |-> {}]
    /\ failedTasks' = {}
    /\ callbackCalls' = 0
    /\ UNCHANGED <<authVars, resolver, fetched, call>>

\* readFromBuffer called on the reader a second time: nothing resets the members.
readFromBufferAgain ==
    /\ BeginRead
    /\ UNCHANGED <<m_successfull, m_errorMessage>>

\* PDFDocumentReader::reset
reset ==
    /\ m_successfull' = TRUE
    /\ m_errorMessage' = NoMessage

\* readFromDevice called on the reader a second time: reset(), then readFromBuffer.
readFromDeviceAgain ==
    /\ BeginRead
    /\ reset

NextAgain == Next \/ readFromBufferAgain \/ readFromDeviceAgain

SpecAgain == Init /\ [][NextAgain]_vars

\* The encryption dictionary of the encrypted documents read.
StandardEncrypt ==
    EncryptionDictionary(ProtectedHandler(3, 40, <<111>>, <<117>>, Zeros(16), TRUE))

\* The references the trailer may hold under Encrypt: to every object of
\* the table and to the first number outside it, in both generations.
EncryptReferences ==
    {ReferenceObject(n, g) : n \in 0..(MaxObjNum + 1), g \in {0, 1}}

\* The buffer of the layout, the object a reference names being the
\* encryption dictionary when the table stores it as an occupied entry.
BufferWith(cells, reference) ==
    LET n == reference.objectNumber
    IN  IF n \in DOMAIN cells /\ cells[n].k = "Object"
        THEN [BufferOf(cells) EXCEPT ![OffsetOf(n)].object = StandardEncrypt]
        ELSE BufferOf(cells)

\* readFromBuffer on a buffer whose trailer holds an indirect reference
\* under Encrypt.
InitIndirect ==
    /\ resolver = ResolverIdle
    /\ fetched = <<>>
    /\ earlierRead = NoRead
    /\ call = NoCall
    /\ \E cells \in Layouts, reference \in EncryptReferences :
          /\ xrefTable = XRefOf(cells)
          /\ buffer \in {BufferOf(cells), BufferWith(cells, reference)}
          /\ trailer = TrailerOf(reference)
    /\ m_successfull = TRUE
    /\ m_errorMessage = NoMessage
    /\ m_mutex = NoTask
    /\ objects = [n \in ObjNums |-> StorageEntry(0, NullObject)]
    /\ pc = "entries"
    /\ entryTask = [n \in ObjNums |->
                       IF n \in getOccupiedEntries(xrefTable) THEN "ready" ELSE "none"]
    /\ streamTask = [c \in ContainerNums |-> NoStreamTask]
    /\ securityHandler = NoHandler
    /\ authorizationResult = "none"
    /\ document = [kind |-> "none"]
    /\ slotWrites = [n \in ObjNums |-> 0]
    /\ slotWriters = [n \in ObjNums |-> {}]
    /\ failedTasks = {}
    /\ callbackCalls = 0
    /\ AuthIdle

SpecIndirect == InitIndirect /\ [][Next]_vars

-----------------------------------------------------------------------------
(* readFromBuffer: footer checking.  The buffer is the sequence of its     *)
(* bytes, each written as a string of one character.                       *)

PDF_END_OF_FILE_MARK == <<"%", "%", "E", "O", "F">>

PDF_START_OF_XREF_MARK == <<"s", "t", "a", "r", "t", "x", "r", "e", "f">>

\* The window scanned from the end of the buffer, scaled down to the
\* buffers read here.
PDF_FOOTER_SCAN_LIMIT == 16

FIND_NOT_FOUND_RESULT == -1

\* The window scanned from the start of the buffer, scaled down likewise.
PDF_HEADER_SCAN_LIMIT == 24

\* The two forms of the file header: %PDF-x.x and %!PS-Adobe-y.y PDF-x.x.
HeaderPrefix == <<"%", "P", "D", "F", "-">>

AdobePrefix == <<"%", "!", "P", "S", "-", "A", "d", "o", "b", "e", "-">>

AdobeInfix == <<" ", "P", "D", "F", "-">>

\* A header of the first form and one of the second, of the version x.y.
HeaderOf(x, y) == HeaderPrefix \o <<x, ".", y>>

AdobeHeaderOf(x, y) == AdobePrefix \o <<"3", ".", "0">> \o AdobeInfix \o <<x, ".", y>>

\* What a buffer is made of: the two marks, a digit, a white space, other
\* bytes, and headers of the two forms, one of them of the version 0.4.
Pieces ==
    {PDF_END_OF_FILE_MARK, PDF_START_OF_XREF_MARK, <<"1">>, <<" ">>, <<"x", "x", "x", "x">>,
     HeaderOf("1", "7"), HeaderOf("0", "4"), AdobeHeaderOf("1", "4")}

\* Pieces a buffer is made of at most.
MaxPieces == 4

RECURSIVE BuffersOf(_)
BuffersOf(n) ==
    IF n = 0 THEN {<<>>}
    ELSE BuffersOf(n - 1) \cup {b \o piece : b \in BuffersOf(n - 1), piece \in Pieces}

RECURSIVE find_end(_, _, _, _)
\* std::find_end(first, last, s_first, s_last) over the positions from `at`
\* on: the start of the last occurrence of `what`, `found` when there is
\* none after `at`; the caller passes `last` as `found`.
find_end(byteArray, what, at, found) ==
    IF what = <<>> THEN Len(byteArray)
    ELSE IF at + Len(what) > Len(byteArray) THEN found
    ELSE find_end(byteArray, what, at + 1,
                  IF SubSeq(byteArray, at + 1, at + Len(what)) = what THEN at ELSE found)

\* The first occurrence in the window is returned.
FindFromStartOfWindow(what, byteArray, limit) ==
    LET size == Len(byteArray)
        adjustedLimit == IF size < limit THEN size ELSE limit
        found == {at \in (size - adjustedLimit)..(size - Len(what)) :
                     SubSeq(byteArray, at + 1, at + Len(what)) = what}
    IN  IF byteArray = <<>> \/ adjustedLimit < Len(what) \/ found = {}
        THEN FIND_NOT_FOUND_RESULT
        ELSE CHOOSE at \in found : \A other \in found : at <= other

\* PDFDocumentReader::findFromEnd: positions are counted from 0.
findFromEnd(what, byteArray, limit) ==
    IF byteArray = <<>> THEN FIND_NOT_FOUND_RESULT
    ELSE LET size == Len(byteArray)
             adjustedLimit == IF size < limit THEN size ELSE limit
             whatLength == Len(what)
         IN  IF adjustedLimit < whatLength THEN FIND_NOT_FOUND_RESULT
             ELSE LET it == find_end(byteArray, what, size - adjustedLimit, size)
                  IN  IF it # size THEN it ELSE FIND_NOT_FOUND_RESULT

\* PDFLexicalAnalyzer::fetch on the bytes after the mark: an integer when,
\* white space skipped, a digit comes first.
RECURSIVE fetchType(_, _)
fetchType(byteArray, from) ==
    IF from > Len(byteArray) THEN "EndOfFile"
    ELSE IF byteArray[from] = " " THEN fetchType(byteArray, from + 1)
    ELSE IF byteArray[from] = "1" THEN "Integer"
    ELSE "Command"

EndOfFileNotFound == Message("End of file marking was not found.", 0)

StartXRefNotFound == Message("Start of object reference table not found.", 0)

\* The two calls of findFromEnd and their tests.
FooterChecking ==
    /\ pc = "footer"
    /\ IF findFromEnd(PDF_END_OF_FILE_MARK, buffer, PDF_FOOTER_SCAN_LIMIT) = FIND_NOT_FOUND_RESULT
       THEN /\ m_successfull' = FALSE
            /\ m_errorMessage' = EndOfFileNotFound
            /\ document' = EmptyDocument
            /\ pc' = "returned"
       ELSE IF findFromEnd(PDF_START_OF_XREF_MARK, buffer, PDF_FOOTER_SCAN_LIMIT) = FIND_NOT_FOUND_RESULT
       THEN /\ m_successfull' = FALSE
            /\ m_errorMessage' = StartXRefNotFound
            /\ document' = EmptyDocument
            /\ pc' = "returned"
       ELSE /\ pc' = "startxref"
            /\ UNCHANGED <<m_successfull, m_errorMessage, document>>
    /\ UNCHANGED <<xrefTable, buffer, trailer, m_mutex, objects, entryTask, streamTask,
                   securityHandler, authorizationResult, slotWrites, slotWriters, failedTasks,
                   authVars, callbackCalls, resolver, fetched, earlierRead, call>>

HeaderNotFound == Message("Header of PDF file was not found.", 0)

VersionNotValid == Message("Version of the PDF file is not valid.", 0)

\* The token fetched after the mark: the offset of the first cross-reference
\* section. When no byte follows the mark the expression of Q_ASSERT is
\* false: a build with assertions stops there, a build without them goes on
\* with an empty range.
FetchXRefOffset ==
    /\ pc = "startxref"
    /\ LET startXRefPosition == findFromEnd(PDF_START_OF_XREF_MARK, buffer, PDF_FOOTER_SCAN_LIMIT)
           token == fetchType(buffer, startXRefPosition + Len(PDF_START_OF_XREF_MARK) + 1)
       IN  \/ /\ ~(startXRefPosition + Len(PDF_START_OF_XREF_MARK) < Len(buffer))
              /\ pc' = "aborted"
              /\ UNCHANGED <<m_successfull, m_errorMessage, document>>
           \/ IF token # "Integer"
              THEN /\ m_successfull' = FALSE
                   /\ m_errorMessage' = StartXRefNotFound
                   /\ document' = EmptyDocument
                   /\ pc' = "returned"
              ELSE /\ pc' = "header"
                   /\ UNCHANGED <<m_successfull, m_errorMessage, document>>
    /\ UNCHANGED <<xrefTable, buffer, trailer, m_mutex, objects, entryTask, streamTask,
                   securityHandler, authorizationResult, slotWrites, slotWriters, failedTasks,
                   authVars, callbackCalls, resolver, fetched, earlierRead, call>>

DigitChars == <<"0", "1", "2", "3", "4", "5", "6", "7", "8", "9">>

IsDigit(byte) == \E k \in DOMAIN DigitChars : DigitChars[k] = byte

\* *it - '0'
DigitValue(byte) == (CHOOSE k \in DOMAIN DigitChars : DigitChars[k] = byte) - 1

PDFVersion(major, minor) == [major |-> major, minor |-> minor]

\* PDFVersion::isValid
isValid(version) == version.major > 0

\* [[:digit:]]\.[[:digit:]] at the position `at` of the window that ends at `last`.
IsVersionAt(byteArray, at, last) ==
    /\ at + 2 <= last
    /\ IsDigit(byteArray[at])
    /\ byteArray[at + 1] = "."
    /\ IsDigit(byteArray[at + 2])

\* `text` at the position `at` of the window that ends at `last`.
IsTextAt(byteArray, text, at, last) ==
    /\ at + Len(text) - 1 <= last
    /\ SubSeq(byteArray, at, at + Len(text) - 1) = text

\* The two alternatives of PDF_FILE_HEADER_REGEXP matched at `at`.
MatchesFirstForm(byteArray, at, last) ==
    /\ IsTextAt(byteArray, HeaderPrefix, at, last)
    /\ IsVersionAt(byteArray, at + Len(HeaderPrefix), last)

MatchesSecondForm(byteArray, at, last) ==
    /\ IsTextAt(byteArray, AdobePrefix, at, last)
    /\ IsVersionAt(byteArray, at + Len(AdobePrefix), last)
    /\ IsTextAt(byteArray, AdobeInfix, at + Len(AdobePrefix) + 3, last)
    /\ IsVersionAt(byteArray, at + Len(AdobePrefix) + 3 + Len(AdobeInfix), last)

NoVersion == [matched |-> FALSE, version |-> PDFVersion(0, 0)]

\* std::regex_search over the first PDF_HEADER_SCAN_LIMIT bytes: the leftmost
\* match, and the version made of the first and the last byte of its group.
headerMatch(byteArray) ==
    LET size == Len(byteArray)
        last == IF size < PDF_HEADER_SCAN_LIMIT THEN size ELSE PDF_HEADER_SCAN_LIMIT
        found == {at \in 1..last : \/ MatchesFirstForm(byteArray, at, last)
                                    \/ MatchesSecondForm(byteArray, at, last)}
    IN  IF found = {} THEN NoVersion
        ELSE LET at == CHOOSE first \in found : \A other \in found : first <= other
                 group == IF MatchesFirstForm(byteArray, at, last)
                          THEN at + Len(HeaderPrefix)
                          ELSE at + Len(AdobePrefix) + 3 + Len(AdobeInfix)
             IN  [matched |-> TRUE,
                  version |-> PDFVersion(DigitValue(byteArray[group]),
                                         DigitValue(byteArray[group + 2]))]

\* The version is tested without looking at the result of the search.
VersionBeforeHeader ==
    /\ pc = "header"
    /\ LET header == headerMatch(buffer)
       IN  IF ~isValid(header.version)
           THEN /\ m_successfull' = FALSE
                /\ m_errorMessage' = VersionNotValid
                /\ document' = EmptyDocument
                /\ pc' = "returned"
           ELSE /\ pc' = "xref"
                /\ UNCHANGED <<m_successfull, m_errorMessage, document>>
    /\ UNCHANGED <<xrefTable, buffer, trailer, m_mutex, objects, entryTask, streamTask,
                   securityHandler, authorizationResult, slotWrites, slotWriters, failedTasks,
                   authVars, callbackCalls, resolver, fetched, earlierRead, call>>

\* Header checking: the search of the header, then the test of its version.
HeaderChecking ==
    /\ pc = "header"
    /\ LET header == headerMatch(buffer)
       IN  IF ~header.matched
           THEN /\ m_successfull' = FALSE
                /\ m_errorMessage' = HeaderNotFound
                /\ document' = EmptyDocument
                /\ pc' = "returned"
           ELSE IF ~isValid(header.version)
           THEN /\ m_successfull' = FALSE
                /\ m_errorMessage' = VersionNotValid
                /\ document' = EmptyDocument
                /\ pc' = "returned"
           ELSE /\ pc' = "xref"
                /\ UNCHANGED <<m_successfull, m_errorMessage, document>>
    /\ UNCHANGED <<xrefTable, buffer, trailer, m_mutex, objects, entryTask, streamTask,
                   securityHandler, authorizationResult, slotWrites, slotWriters, failedTasks,
                   authVars, callbackCalls, resolver, fetched, earlierRead, call>>

\* The checks passed: the cross-reference table is read (what readXRefTable
\* makes of the buffer is any table of a valid layout), the object table is
\* sized and the tasks of the occupied entries are dispatched.
ScanXRefTable ==
    /\ pc = "xref"
    /\ \E cells \in ValidLayouts :
          /\ xrefTable' = XRefOf(cells)
          /\ entryTask' = [n \in ObjNums |->
                IF n \in getOccupiedEntries(XRefOf(cells)) THEN "ready" ELSE "none"]
    /\ objects' = [n \in ObjNums |-> StorageEntry(0, NullObject)]
    /\ streamTask' = [c \in ContainerNums |-> NoStreamTask]
    /\ slotWrites' = [n \in ObjNums |-> 0]
    /\ slotWriters' = [n \in ObjNums |-> {}]
    /\ pc' = "entries"
    /\ UNCHANGED <<buffer, trailer, m_successfull, m_errorMessage, m_mutex, securityHandler,
                   authorizationResult, document, failedTasks, authVars, callbackCalls, resolver,
                   fetched, earlierRead, call>>

\* readFromBuffer entered with a buffer.
InitFooter ==
    /\ resolver = ResolverIdle
    /\ fetched = <<>>
    /\ earlierRead = NoRead
    /\ call = NoCall
    /\ xrefTable = <<>>
    /\ buffer \in BuffersOf(MaxPieces)
    /\ trailer = NullObject
    /\ m_successfull = TRUE
    /\ m_errorMessage = NoMessage
    /\ m_mutex = NoTask
    /\ objects = <<>>
    /\ pc = "footer"
    /\ entryTask = <<>>
    /\ streamTask = <<>>
    /\ securityHandler = NoHandler
    /\ authorizationResult = "none"
    /\ document = [kind |-> "none"]
    /\ slotWrites = <<>>
    /\ slotWriters = <<>>
    /\ failedTasks = {}
    /\ callbackCalls = 0
    /\ AuthIdle

NextFooter == FooterChecking \/ FetchXRefOffset \/ HeaderChecking \/ ScanXRefTable

SpecFooter == InitFooter /\ [][NextFooter]_vars


\* The objects of the table that are read by the tasks in SpecFair.
MaxTaskNum == 2

\* The reads in which the objects up to MaxTaskNum have a task of one of the
\* two phases or are members written by one, the others being free.
InitFair == Init /\ \A n \in ObjNums : (xrefTable[n].type = "Free") <=> (n > MaxTaskNum)

\* readFromBuffer with the tasks run on: the pool goes on running some task
\* that can take a step, and the calling thread goes on after a join.
SpecFair == InitFair /\ [][Next]_vars /\ WF_vars(Next)


\* A function is called on its own with one of `calls`: no read and no
\* authentication runs.
CalledWith(calls) ==
    /\ ReaderAtRest
    /\ AuthIdle
    /\ callbackCalls = 0
    /\ call \in calls

\* The call returns `result`.
CallReturns(name, result) ==
    /\ call.name = name
    /\ ~call.returned
    /\ call' = [call EXCEPT !.returned = TRUE, !.result = result]
    /\ UNCHANGED <<xrefTable, buffer, trailer, m_successfull, m_errorMessage, m_mutex, objects,
                   pc, entryTask, streamTask, securityHandler, authorizationResult, document,
                   slotWrites, slotWriters, failedTasks, resolver, fetched, earlierRead,
                   authVars, callbackCalls>>

\* The longest buffer findFromEnd is called with.
MaxFindLen == 5

RECURSIVE BytesUpTo(_)
\* The byte strings of two letters of the length n at most.
BytesUpTo(n) ==
    IF n = 0 THEN {<<>>}
    ELSE BytesUpTo(n - 1) \cup {Append(b, letter) : b \in BytesUpTo(n - 1), letter \in {"a", "b"}}

\* findFromEnd called with a text of one to three bytes, a buffer and a
\* limit from below zero to above the size of the buffer.
InitFind ==
    CalledWith({[name |-> "findFromEnd", what |-> what, byteArray |-> byteArray,
                 limit |-> limit, returned |-> FALSE, result |-> 0] :
                    what \in BytesUpTo(3) \ {<<>>}, byteArray \in BytesUpTo(MaxFindLen),
                    limit \in -1..(MaxFindLen + 1)})

FindFromEnd == CallReturns("findFromEnd", findFromEnd(call.what, call.byteArray, call.limit))

SpecFind == InitFind /\ [][FindFromEnd]_vars


\* createHash_r6 called on its own, at its loop: K is the digest of the input.
HashCall(password, userKey) ==
    [name |-> "createHash_r6", input |-> password \o Salt(10) \o userKey,
     password |-> password, userKey |-> userKey,
     K |-> SHA256(password \o Salt(10) \o userKey), round |-> 0, back |-> 0,
     returned |-> FALSE, result |-> <<>>]

\* An empty password without the user key, and a password with the 48
\* bytes of U as the user key.
HashCalls ==
    {HashCall(<<>>, <<>>), HashCall(<<117>>, SHA256(<<1>>) \o Salt(10) \o Salt(20))}

\* The last byte of E in a call on its own: the byte the stand-in for the
\* cipher computes, or the greatest byte, which the cipher of the library
\* may give in any round.
LastBytes(computed) == {computed, 255}

InitHash == CalledWith(HashCalls)

\* One round of the loop of createHash_r6 called on its own.
HashRoundOnly ==
    /\ call.name = "createHash_r6"
    /\ ~call.returned
    /\ hashContinues(call)
    /\ \E next \in {HashRound(call.K, call.password, call.userKey)} :
       \E last \in LastBytes(next.last) :
          call' = [call EXCEPT !.K = next.K, !.round = @ + 1, !.back = last]
    /\ UNCHANGED <<xrefTable, buffer, trailer, m_successfull, m_errorMessage, m_mutex, objects,
                   pc, entryTask, streamTask, securityHandler, authorizationResult, document,
                   slotWrites, slotWriters, failedTasks, resolver, fetched, earlierRead,
                   authVars, callbackCalls>>

\* The loop is left and the first 32 bytes of K are returned.
HashReturns ==
    /\ hashStops(call)
    /\ CallReturns("createHash_r6", hashResult(call))

NextHash == HashRoundOnly \/ HashReturns

\* The function runs on: a step that can be taken is taken.
SpecHash == InitHash /\ [][NextHash]_vars /\ WF_vars(NextHash)


\* The first 16 bytes of E the remainder is computed for: one byte of any
\* value at any place among zeros, among 255s and among the bytes of the
\* password padding.
RemainderInputs ==
    {[i \in 1..16 |-> IF i = place THEN byte ELSE rest[i]] \o <<>> :
        place \in 1..16, byte \in 0..255,
        rest \in {Zeros(16), [i \in 1..16 |-> 255] \o <<>>, SubSeq(PDFPasswordPadding, 1, 16)}}

\* Steps c) and d) of a round of createHash_r6 on their own, for an E and
\* the K of the round before.
InitRemainder ==
    CalledWith({[name |-> "remainder", E |-> E, K |-> SHA256(<<>>), returned |-> FALSE,
                 result |-> [remainderAccumulator |-> 0, K |-> <<>>]] : E \in RemainderInputs})

\* The remainder is accumulated and the digest chosen by it becomes K.
ChooseDigest ==
    \E r \in {remainderAccumulator(call.E)} :
        CallReturns("remainder", [remainderAccumulator |-> r, K |-> digestBy(r, call.E, call.K)])

SpecRemainder == InitRemainder /\ [][ChooseDigest]_vars


\* Key lengths in bits of the handlers a key is derived for: the least, one
\* that is no multiple of 8, the greatest the digest gives, and longer ones.
KeyLengths == {40, 44, 64, 128, 132, 136, 256}

\* Passwords a key is derived from: none, one byte, 32 bytes and 33 bytes.
KeyPasswords ==
    {<<>>, <<117>>, [i \in 1..32 |-> 64 + i] \o <<>>, [i \in 1..33 |-> 64 + i] \o <<>>}

\* createFileEncryptionKey called on its own, on a handler of revision 2, 3
\* or 4 with the key length read from Length.
InitKey ==
    CalledWith({[name |-> "createFileEncryptionKey",
                 handler |-> [ProtectedHandler(R, 40, <<111>>, <<117>>, Zeros(16), encryptMetadata)
                                 EXCEPT !.m_keyLength = keyLength],
                 password |-> password, returned |-> FALSE, result |-> Return(<<>>)] :
                    R \in {2, 3, 4}, encryptMetadata \in BOOLEAN, keyLength \in KeyLengths,
                    password \in KeyPasswords})

CreateFileEncryptionKey ==
    CallReturns("createFileEncryptionKey", createFileEncryptionKey(call.handler, call.password))

SpecKey == InitKey /\ [][CreateFileEncryptionKey]_vars


-----------------------------------------------------------------------------
(* Properties of readFromBuffer *)

FirstPhaseJoined == \A n \in ObjNums : entryTask[n] \in {"none", "done"}

\* The record at the offset of entry n carries the entry's reference
\* between the keywords obj and endobj.
HeaderMatches(n) ==
    LET rec == buffer[xrefTable[n].offset]
    IN  /\ rec.objectNumber = IntObject(xrefTable[n].reference.objectNumber)
        /\ rec.generation = IntObject(xrefTable[n].reference.generation)
        /\ rec.startMark
        /\ rec.endMark

AllEntriesParse ==
    \A n \in ObjNums :
        xrefTable[n].type = "Occupied" =>
            getObject(buffer, xrefTable[n].offset, xrefTable[n].reference).ok

\* C1: when an occupied-entry task of the first phase has recorded a
\* failure, readFromBuffer returns the empty document with the error
\* recorded, never a document built from the object table.
EntryFailureReturnsEmptyDocument ==
    (pc = "returned" /\ \E n \in ObjNums : EntryTaskOf(n) \in failedTasks)
        => (document = EmptyDocument /\ ~m_successfull)

\* C2: when an object-stream task of the second phase has recorded a
\* failure, readFromBuffer returns the empty document; the object storage
\* is returned only when no task of either phase recorded a failure.
StorageOnlyWithoutFailure ==
    (pc = "returned" /\ document.kind = "storage")
        => \A c \in ContainerNums : StreamTaskOf(c) \notin failedTasks

\* C3: when every occupied entry parses, no slot of an occupied entry is
\* ever written twice, and once the first phase has joined each of them
\* has been written exactly once, by its own task, whatever the interleaving.
EachSlotWrittenOnce ==
    AllEntriesParse =>
        \A n \in ObjNums :
            xrefTable[n].type = "Occupied" =>
                /\ slotWrites[n] <= 1
                /\ FirstPhaseJoined =>
                      /\ slotWrites[n] = 1
                      /\ slotWriters[n] = {EntryTaskOf(n)}
                      /\ objects[n].object # NullObject

EachSlotWrittenOnceWitness ==
    /\ FirstPhaseJoined
    /\ AllEntriesParse
    /\ pc = "entries"
    /\ \A n \in ObjNums : xrefTable[n].type = "Occupied" /\ slotWrites[n] = 1

\* C4: no slot is written by two distinct tasks, in either phase: an
\* occupied-entry task writes the slot of its own entry only, and the
\* object-stream tasks of different containers write different slots.
NoSlotSharedByTasks ==
    \A n \in ObjNums :
        /\ Cardinality(slotWriters[n]) <= 1
        /\ \A t \in slotWriters[n] : t.kind = "entry" => t.num = n

NoSlotSharedByTasksWitness ==
    \E c1, c2 \in ContainerNums :
        /\ c1 # c2
        /\ \E n1, n2 \in ObjNums :
              /\ slotWriters[n1] = {StreamTaskOf(c1)}
              /\ slotWriters[n2] = {StreamTaskOf(c2)}
        /\ \E n \in ObjNums : slotWriters[n] = {EntryTaskOf(n)}

\* C5: every access of a parallel task to the shared state is made while
\* the task holds the mutex; in particular the task that leaves the test
\* of the success flag at its start holds the mutex when it reads the flag.
FlagReadUnderMutex ==
    [][/\ \A n \in ObjNums :
             (entryTask[n] = "ready" /\ entryTask'[n] # "ready")
                 => m_mutex = EntryTaskOf(n)
       /\ \A c \in ContainerNums :
             (pc = "streams" /\ streamTask[c].pc = "ready" /\ streamTask'[c].pc # "ready")
                 => m_mutex = StreamTaskOf(c)]_vars

\* C6: an occupied-entry task writes a slot only when the numbers read at
\* the entry's offset equal the entry's reference (n, g) and both keywords
\* are there; it then writes slot n with generation g.  Otherwise the task
\* that parsed the record records a failure and never writes the slot.
EntryWrittenOnlyOnMatch ==
    /\ [](\A n \in ObjNums :
            /\ EntryTaskOf(n) \in UNION {slotWriters[m] : m \in ObjNums} =>
                  /\ HeaderMatches(n)
                  /\ EntryTaskOf(n) \in slotWriters[n]
                  /\ objects[n].generation = xrefTable[n].reference.generation
            /\ (xrefTable[n].type = "Occupied" /\ ~HeaderMatches(n)) =>
                  /\ slotWrites[n] = 0
                  /\ entryTask[n] # "writing")
    /\ [][\A n \in ObjNums :
            (entryTask[n] = "parsing" /\ ~HeaderMatches(n) /\ entryTask'[n] # "parsing")
                => entryTask'[n] = "failing"]_vars
    /\ [][\A n \in ObjNums :
            (entryTask[n] = "failing" /\ entryTask'[n] # "failing")
                => /\ EntryTaskOf(n) \in failedTasks'
                   /\ ~m_successfull'
                   /\ objects' = objects]_vars

EntryWrittenOnlyOnMatchWitness ==
    \E n, m \in ObjNums :
        /\ n # m
        /\ EntryTaskOf(n) \in failedTasks
        /\ buffer[xrefTable[n].offset].generation
              # IntObject(xrefTable[n].reference.generation)
        /\ slotWrites[n] = 0
        /\ slotWriters[m] = {EntryTaskOf(m)}
        /\ objects[m].generation = 1

\* C7: when authenticate returns Failed or Cancelled, readFromBuffer
\* records the failure and returns the empty document, and no object
\* stream task is started.
RefusedAuthorizationStopsRead ==
    authorizationResult \in {"Failed", "Cancelled"} =>
        /\ pc = "returned"
        /\ ~m_successfull
        /\ m_errorMessage = AuthorizationFailed
        /\ document = EmptyDocument
        /\ \A c \in ContainerNums : streamTask[c] = NoStreamTask

RefusedAuthorizationStopsReadWitness ==
    /\ authorizationResult = "Cancelled"
    /\ pc = "returned"
    /\ objectStreamsOf(xrefTable) # {}
    /\ failedTasks = {}

\* C15: when the Encrypt entry of the trailer is Null, the handler created
\* is the None handler, the authorization succeeds, and the password
\* callback is not invoked at any point of the read.
NoEncryptNoProvider ==
    (trailer.type = "Dictionary" /\ Get(trailer.dict, "Encrypt").type = "Null") =>
        /\ callbackCalls = 0
        /\ pc \in {"streams", "returned"} =>
              /\ securityHandler.handler = NoneSecurityHandler
              /\ isAuthorized([authorizationResult |-> authorizationResult])

NoEncryptNoProviderWitness ==
    /\ Get(trailer.dict, "Encrypt").type = "Null"
    /\ pc = "returned"
    /\ document.kind = "storage"
    /\ securityHandler.handler = NoneSecurityHandler
    /\ authorizationResult = "OwnerAuthorized"
    /\ callbackCalls = 0

\* The object is an integer whose value is one of `values`.
IntegerIn(object, values) ==
    /\ object.type = "Int"
    /\ getInteger(object).wraps = 0
    /\ getInteger(object).low \in values

\* The object is a string of `size` bytes.
StringOfSize(object, size) == object.type = "String" /\ Len(object.value) = size

\* The Encrypt value is one of those named: no dictionary, or a dictionary
\* with a Filter that is not the name Standard, a V outside 1..5, an R that
\* is none of 2, 3, 4, 6, an O or U that is no string of 32 bytes (48 for
\* R = 6) or, for R = 6, an OE or UE not of 32 bytes or a Perms not of 16.
Malformed(encrypt) ==
    \/ encrypt.type # "Dictionary"
    \/ Get(encrypt.dict, "Filter") # NameObject("Standard")
    \/ ~IntegerIn(Get(encrypt.dict, "V"), 1..5)
    \/ ~IntegerIn(Get(encrypt.dict, "R"), {2, 3, 4, 6})
    \/ \E key \in {"O", "U"} :
          ~StringOfSize(Get(encrypt.dict, key),
                        IF IntegerIn(Get(encrypt.dict, "R"), {6}) THEN 48 ELSE 32)
    \/ /\ IntegerIn(Get(encrypt.dict, "R"), {6})
       /\ \/ ~StringOfSize(Get(encrypt.dict, "OE"), 32)
          \/ ~StringOfSize(Get(encrypt.dict, "UE"), 32)
          \/ ~StringOfSize(Get(encrypt.dict, "Perms"), 16)

\* C16: for every Encrypt value that is not Null and is no dictionary, or
\* has a Filter other than Standard, a V outside 1..5, an R outside
\* {2, 3, 4, 6}, an O or U of the wrong size, or for R = 6 an OE, UE or
\* Perms of the wrong size, createSecurityHandler builds no handler and
\* raises an error, and the read returns the empty document.
MalformedEncryptRaises ==
    (pc # "security" /\ Get(trailer.dict, "Encrypt").type # "Null"
     /\ Malformed(Get(trailer.dict, "Encrypt"))) =>
        /\ pc = "returned"
        /\ securityHandler = NoHandler
        /\ document = EmptyDocument
        /\ ~m_successfull
        /\ m_errorMessage # NoMessage

\* C17: a task of the second phase writes the object of the pair at
\* position i of its container only when the cross-reference table stores
\* that object number in this container at index i; a pair at a position
\* other than the index recorded is not written.
WrittenAtRecordedIndex ==
    [][\A c \in ContainerNums :
          (streamTask[c].pc = "writing" /\ streamTask'[c].pc = "pairs") =>
              \E slot \in {pairStep(xrefTable, c, streamTask[c].stream,
                                     streamTask[c].i).value.slot} :
                  /\ xrefTable[slot].type = "InObjectStream"
                  /\ xrefTable[slot].objectStream = PDFObjectReference(c, 0)
                  /\ xrefTable[slot].objectStreamIndex = streamTask[c].i - 1]_vars

\* C18: once a task of a phase has recorded its failure, the recorded error
\* message stays the message of that task: no task of the same phase that
\* fails later replaces it.
FirstFailureMessageKept ==
    [][(failedTasks # {} /\ failedTasks' # failedTasks) =>
          m_errorMessage' = m_errorMessage]_vars

\* The reference task n had resolved names a free entry of the table.
FetchedFree(n) ==
    n \in DOMAIN fetched /\ xrefTable[fetched[n].reference.objectNumber].type = "Free"

\* C19: a reference whose cross-reference entry is Free resolves to the null
\* object: the fetch raises nothing and the task that asked records no
\* failure for it (a task that failed after such a fetch failed on its own
\* record); and the slot of a Free entry is written by no task.
FreeResolvesToNull ==
    /\ \A n \in ObjNums :
          FetchedFree(n) =>
              /\ fetched[n].result = Return(NullObject)
              /\ entryTask[n] # "caught"
              /\ EntryTaskOf(n) \in failedTasks =>
                     ~getObject(buffer, xrefTable[n].offset, xrefTable[n].reference).ok
    /\ \A n \in ObjNums :
          xrefTable[n].type = "Free" =>
              /\ slotWrites[n] = 0
              /\ slotWriters[n] = {}
              /\ objects[n] = StorageEntry(0, NullObject)

\* A read that resolved a reference to a free entry and returned a document.
FreeResolvesToNullWitness ==
    /\ pc = "returned"
    /\ m_successfull
    /\ failedTasks = {}
    /\ \E n \in ObjNums : FetchedFree(n) /\ entryTask[n] = "done" /\ slotWrites[n] = 1

\* C20: from the moment a task of the first phase has recorded a failure,
\* and for the rest of the read, no security handler is built and the
\* password callback is not invoked.
FirstPhaseFailureStopsRead ==
    (\E n \in ObjNums : EntryTaskOf(n) \in failedTasks)
        => /\ securityHandler = NoHandler
           /\ authorizationResult = "none"
           /\ callbackCalls = 0

\* C21: a read made on a reader that has read before ends as a read made
\* on a fresh reader does: on a valid unencrypted buffer every task runs,
\* every slot of the table is written and the document is returned with the
\* success flag set and no error message, whatever the earlier read left.
SecondReadStartsClean ==
    (earlierRead # NoRead /\ pc = "returned")
        => /\ m_successfull
           /\ m_errorMessage = NoMessage
           /\ document.kind = "storage"
           /\ \A n \in ObjNums : xrefTable[n].type # "Free" => slotWrites[n] = 1

\* C22: once the success flag is false no task writes a slot of the object
\* table any more, not even a task that was running when the failure was
\* recorded.
NoWriteAfterFailure ==
    [][~m_successfull => (slotWrites' = slotWrites /\ objects' = objects)]_vars

\* C23: a trailer whose Encrypt entry is not null never gives a document
\* read with the handler of unencrypted documents: the handler created is
\* the standard one, or the read fails.
EncryptedNeverReadAsPlain ==
    Get(trailer.dict, "Encrypt") # NullObject =>
        /\ securityHandler # NoHandler => securityHandler.handler # NoneSecurityHandler
        /\ pc = "returned" =>
              \/ document = EmptyDocument /\ ~m_successfull
              \/ document.securityHandler.handler # NoneSecurityHandler

\* C24: when readFromBuffer returns and no failure was recorded, the slot of
\* every entry stored in an object stream was written exactly once, with the
\* object parsed from its container.
EachMemberWrittenOnce ==
    (pc = "returned" /\ m_successfull /\ failedTasks = {}) =>
        \A n \in ObjNums :
            xrefTable[n].type = "InObjectStream" =>
                /\ slotWrites[n] = 1
                /\ objects[n].object = MemberObject(n)

\* C25: the slot of an object that an object-stream task reads as its
\* container is written by no task of the second phase, so that no task of
\* that phase reads, without the lock, a slot another one may write.
ContainersWrittenInFirstPhaseOnly ==
    \A c \in objectStreamsOf(xrefTable) \cap ObjNums :
        \A d \in ContainerNums :
            /\ StreamTaskOf(d) \notin slotWriters[c]
            /\ streamTask[d].pc = "writing" =>
                  pairStep(xrefTable, d, streamTask[d].stream, streamTask[d].i).value.slot # c

\* C26: whenever both marks were found in the window, the assertion made
\* before the offset is read holds: at least one byte follows the
\* start-of-xref mark found.
ByteFollowsStartXRef ==
    pc = "startxref" =>
        findFromEnd(PDF_START_OF_XREF_MARK, buffer, PDF_FOOTER_SCAN_LIMIT)
            + Len(PDF_START_OF_XREF_MARK) < Len(buffer)

\* The object-stream tasks that were dispatched.
Dispatched(tasks) == {c \in ContainerNums : tasks[c].pc # "none"}

\* C27: the password callback is invoked only when every task of the first
\* phase has finished and no object-stream task was dispatched, no task
\* holding the mutex; the object-stream tasks are dispatched together, one
\* per container the entries name, and once one is dispatched the callback
\* is not invoked again.
ProviderBetweenPhases ==
    [][/\ callbackCalls' # callbackCalls =>
             /\ \A n \in ObjNums : entryTask[n] \in {"none", "done"}
             /\ Dispatched(streamTask) = {}
             /\ m_mutex = NoTask
       /\ Dispatched(streamTask') # {} =>
             /\ \A n \in ObjNums : entryTask'[n] \in {"none", "done"}
             /\ Dispatched(streamTask') = objectStreamsOf(xrefTable)
             /\ Dispatched(streamTask) # {} => callbackCalls' = callbackCalls]_vars

\* The provider was asked and an object-stream task is running.
ProviderBetweenPhasesWitness ==
    /\ callbackCalls > 0
    /\ pc = "streams"
    /\ \E n \in ObjNums : entryTask[n] = "done"
    /\ \E c \in ContainerNums : streamTask[c].pc = "writing"

\* The message of the exception the task of entry n raises.
EntryMessage(n) == getObject(buffer, xrefTable[n].offset, xrefTable[n].reference).message

FailedEntries == {n \in ObjNums : EntryTaskOf(n) \in failedTasks}

FailedStreams == {c \in ContainerNums : StreamTaskOf(c) \in failedTasks}

\* C28: after the join of a phase in which a task failed the success flag
\* is false and the recorded message is the message of one of the tasks
\* that failed in that phase, whatever the interleaving.
MessageOfAFailedTask ==
    /\ (pc = "entries" /\ FirstPhaseJoined /\ FailedEntries # {}) =>
          /\ ~m_successfull
          /\ m_errorMessage # NoMessage
          /\ m_errorMessage \in {EntryMessage(n) : n \in FailedEntries}
    /\ (pc = "streams" /\ FailedStreams # {}
        /\ \A c \in ContainerNums : streamTask[c].pc \in {"none", "done"}) =>
          /\ ~m_successfull
          /\ m_errorMessage # NoMessage
          /\ m_errorMessage \in {streamTask[c].exception : c \in FailedStreams}

\* Two tasks of the first phase failed with different messages and the
\* message recorded at the join is that of the task of object 0.
MessageOfAFailedTaskWitness ==
    /\ pc = "entries"
    /\ FirstPhaseJoined
    /\ FailedEntries = {0, 1}
    /\ EntryMessage(0) # EntryMessage(1)
    /\ m_errorMessage = EntryMessage(0)
    /\ entryTask[0] = "done"

\* The pair an object-stream task is at, when it has one.
AtPair(c) ==
    IF streamTask[c].pc \in {"pairs", "writing", "failing"} /\ streamTask[c].stream.type = "Stream"
    THEN streamTask[c].i \in 1..Len(PairsOf(streamTask[c].stream))
    ELSE FALSE

\* C29: the object table has the size of the cross-reference table during
\* the whole read, and every write of a slot uses an index inside it: a
\* task about to write holds a number of the table, and a pair whose object
\* number is negative or not below the size is refused without a write.
WritesInsideTable ==
    /\ DOMAIN objects = DOMAIN xrefTable
    /\ \A n \in ObjNums :
          entryTask[n] = "writing" => entrySlot(xrefTable[n]) \in DOMAIN objects
    /\ \A c \in ContainerNums :
          AtPair(c) =>
              LET number == PairsOf(streamTask[c].stream)[streamTask[c].i][1]
              IN  /\ streamTask[c].pc = "writing" => number \in DOMAIN objects
                  /\ number \notin DOMAIN objects =>
                        ~pairStep(xrefTable, c, streamTask[c].stream, streamTask[c].i).ok

\* A task has refused a pair whose number lies outside the table, after
\* it wrote the pairs before it.
WritesInsideTableWitness ==
    \E c \in ContainerNums :
        /\ AtPair(c)
        /\ streamTask[c].pc = "failing"
        /\ PairsOf(streamTask[c].stream)[streamTask[c].i][1] \notin DOMAIN objects
        /\ \E n \in ObjNums : StreamTaskOf(c) \in slotWriters[n]

\* The object table a single thread leaves after the first phase, the
\* occupied entries taken one after the other.
SequentialEntries(table, buf) ==
    [s \in ObjNums |->
        LET writers == {n \in getOccupiedEntries(table) :
                           /\ entrySlot(table[n]) = s
                           /\ getObject(buf, table[n].offset, table[n].reference).ok}
        IN  IF writers = {} THEN [generation |-> 0, object |-> NullObject]
            ELSE LET n == CHOOSE n \in writers : TRUE
                 IN  [generation |-> table[n].reference.generation,
                      object |-> getObject(buf, table[n].offset, table[n].reference).value]]

\* The pairs of the container c that its task writes, the container read
\* from the table of the first phase.
WrittenPairs(table, first, c) ==
    LET header == objectStreamHeader(first, c)
    IN  IF ~header.ok THEN {}
        ELSE {i \in 1..Len(PairsOf(header.value.stream)) :
                 pairStep(table, c, header.value.stream, i).ok}

\* The object table a single thread leaves after the second phase.
SequentialObjects(table, buf) ==
    LET first == SequentialEntries(table, buf)
    IN  [s \in ObjNums |->
            LET writers == {w \in UNION {{<<c, i>> : i \in WrittenPairs(table, first, c)} :
                                            c \in objectStreamsOf(table)} :
                               pairStep(table, w[1], first[w[1]].object, w[2]).value.slot = s}
            IN  IF writers = {} THEN first[s]
                ELSE LET last == CHOOSE w \in writers : \A v \in writers : v[2] <= w[2]
                     IN  [generation |-> first[s].generation,
                          object |-> pairStep(table, last[1], first[last[1]].object,
                                              last[2]).value.object]]

\* C33: when no task of the read has failed, the object table at the join
\* of the first phase and at the return, and the document returned, are
\* those a single thread produces from the same buffer: they do not depend
\* on the order in which the tasks ran.
SameTableForEveryInterleaving ==
    failedTasks = {} =>
        /\ (pc = "entries" /\ forEachReturned(entryTask)) =>
              objects = SequentialEntries(xrefTable, buffer)
        /\ (pc = "returned" /\ document.kind = "storage") =>
              /\ objects = SequentialObjects(xrefTable, buffer)
              /\ document = StorageDocument(SequentialObjects(xrefTable, buffer), trailer,
                                            securityHandler)

\* A read that ran two entry tasks and two tasks of object streams, each
\* of which wrote, has returned its document.
SameTableForEveryInterleavingWitness ==
    /\ pc = "returned"
    /\ document.kind = "storage"
    /\ failedTasks = {}
    /\ Cardinality({s \in ObjNums : \E t \in slotWriters[s] : t.kind = "stream"}) >= 2
    /\ Cardinality(UNION {{t.num : t \in {u \in slotWriters[s] : u.kind = "stream"}} :
                              s \in ObjNums}) >= 2
    /\ Cardinality(getOccupiedEntries(xrefTable)) >= 2


\* The task that holds the mutex is at a slot write or in a catch block.
HeldForOneWrite ==
    m_mutex # NoTask =>
        IF m_mutex.kind = "entry"
        THEN pc = "entries" /\ entryTask[m_mutex.num] \in {"writing", "failing"}
        ELSE pc = "streams" /\ streamTask[m_mutex.num].pc \in {"writing", "failing"}

\* C34: each parallel phase ends without deadlock. The mutex is held only
\* by a task at one slot write or in one catch block, and it is free at
\* each join; every task dispatched in the first phase finishes and the
\* join of the first phase is reached, and every task dispatched in the
\* second phase finishes and the read returns, whether tasks write, fail
\* or skip.
PhasesTerminate ==
    /\ [](HeldForOneWrite)
    /\ []((pc = "returned" \/ (pc = "entries" /\ forEachReturned(entryTask))) => m_mutex = NoTask)
    /\ (pc = "entries") ~> (pc = "entries" /\ forEachReturned(entryTask))
    /\ (pc = "streams") ~> (pc = "returned" /\ \A c \in ContainerNums :
                                                  streamTask[c].pc \in {"none", "done"})

\* A read in which a task of the second phase failed under the mutex after
\* it had written, and tasks of the first phase wrote, has returned.
PhasesTerminateWitness ==
    /\ pc = "returned"
    /\ document.kind = "storage"
    /\ \E t \in failedTasks : t.kind = "stream" /\ \E s \in ObjNums : t \in slotWriters[s]
    /\ \E s \in ObjNums : \E t \in slotWriters[s] : t.kind = "entry"


\* The message of the first structural check the buffer fails, the checks
\* taken in the order of the source; NoMessage when it passes them all.
FirstFailedCheck(byteArray) ==
    LET startXRefPosition ==
            findFromEnd(PDF_START_OF_XREF_MARK, byteArray, PDF_FOOTER_SCAN_LIMIT)
    IN  IF findFromEnd(PDF_END_OF_FILE_MARK, byteArray, PDF_FOOTER_SCAN_LIMIT)
               = FIND_NOT_FOUND_RESULT
            THEN EndOfFileNotFound
        ELSE IF startXRefPosition = FIND_NOT_FOUND_RESULT THEN StartXRefNotFound
        ELSE IF fetchType(byteArray, startXRefPosition + Len(PDF_START_OF_XREF_MARK) + 1)
                    # "Integer"
            THEN StartXRefNotFound
        ELSE IF ~headerMatch(byteArray).matched THEN HeaderNotFound
        ELSE IF ~isValid(headerMatch(byteArray).version) THEN VersionNotValid
        ELSE NoMessage

\* C35: readFromBuffer makes its structural checks in the order end-of-file
\* mark, start-of-xref mark, integer after the mark, header, version. A
\* read that has returned from them has recorded the message of the first
\* check its buffer fails, with the flag cleared and the empty document;
\* the cross-reference table is not read then, no task is dispatched and
\* the provider is not invoked; the table is read and the tasks are
\* dispatched only for a buffer that passes them all.
ChecksInFixedOrder ==
    /\ pc \in {"returned", "aborted"} =>
          /\ xrefTable = <<>>
          /\ entryTask = <<>>
          /\ streamTask = <<>>
          /\ callbackCalls = 0
          /\ FirstFailedCheck(buffer) # NoMessage
    /\ pc = "returned" =>
          /\ ~m_successfull
          /\ m_errorMessage = FirstFailedCheck(buffer)
          /\ document = EmptyDocument
    /\ pc \in {"xref", "entries"} => (FirstFailedCheck(buffer) = NoMessage /\ m_successfull)

\* A buffer that holds neither a header nor an integer after its
\* start-of-xref mark has returned with the message of the earlier check.
ChecksInFixedOrderWitness ==
    /\ pc = "returned"
    /\ ~headerMatch(buffer).matched
    /\ findFromEnd(PDF_END_OF_FILE_MARK, buffer, PDF_FOOTER_SCAN_LIMIT) # FIND_NOT_FOUND_RESULT
    /\ findFromEnd(PDF_START_OF_XREF_MARK, buffer, PDF_FOOTER_SCAN_LIMIT) # FIND_NOT_FOUND_RESULT
    /\ m_errorMessage = StartXRefNotFound


\* The positions, counted from 0, at which `what` occurs in the byte array
\* with all its bytes inside the last min(size, limit) bytes.
OccurrencesInWindow(what, byteArray, limit) ==
    LET size == Len(byteArray)
        window == IF size < limit THEN size ELSE limit
    IN  {at \in 0..size : /\ at >= size - window
                          /\ at + Len(what) <= size
                          /\ SubSeq(byteArray, at + 1, at + Len(what)) = what}

\* C36: findFromEnd returns the start of the last occurrence of `what` that
\* lies entirely within the last min(size, limit) bytes of the buffer, and
\* the not-found value when there is none: when the buffer is empty, when
\* the window is shorter than `what`, and when `what` occurs only at
\* positions that begin before the window.
FindFromEndFindsLastInWindow ==
    (call.name = "findFromEnd" /\ call.returned) =>
        LET found == OccurrencesInWindow(call.what, call.byteArray, call.limit)
        IN  IF found = {} THEN call.result = FIND_NOT_FOUND_RESULT
            ELSE /\ call.result \in found
                 /\ \A other \in found : other <= call.result

\* The text occurs three times: before the window, across its start and
\* inside it twice; the last occurrence is returned.
FindFromEndFindsLastInWindowWitness ==
    /\ call.name = "findFromEnd"
    /\ call.returned
    /\ call.what = <<"a", "a">>
    /\ call.byteArray = <<"a", "a", "a", "a", "a">>
    /\ call.limit = 3
    /\ call.result = 3


\* The handler with the last 16 bytes of its U replaced.
WithTail(h, tail) == [h EXCEPT !.m_U = Left(h.m_U, 16) \o tail]

\* The last 16 bytes of U.
TailOf(h) == SubSeq(h.m_U, 17, 32)

\* What a writer may leave in the last 16 bytes of U.
Tails == {Zeros(16), [i \in 1..16 |-> 255] \o <<>>, SubSeq(PDFPasswordPadding, 1, 16)}

\* One candidate is tried against a handler of revision 2, 3 or 4 whose U
\* ends in its own last 16 bytes or in one of Tails.
InitTail ==
    CalledWith({[name |-> "tryPassword", handler |-> WithTail(h, tail), password |-> p,
                 returned |-> FALSE, result |-> Break(ClearedAuthorizationData)] :
                    h \in ProtectedHandlers, tail \in Tails, p \in Passwords}
               \cup {[name |-> "tryPassword", handler |-> h, password |-> p,
                      returned |-> FALSE, result |-> Break(ClearedAuthorizationData)] :
                        h \in ProtectedHandlers, p \in Passwords})

TryPassword == CallReturns("tryPassword", tryPassword(call.handler, call.password))

SpecTail == InitTail /\ [][TryPassword]_vars

\* C37: for revisions 3 and 4 a candidate has the same outcome against two
\* handlers that differ only in the last 16 bytes of U, because the value
\* compared takes those bytes from U; for revision 2 a candidate is accepted
\* only when all 32 computed bytes equal U, so that a U whose last 16 bytes
\* are not the computed ones accepts nothing.
TailOfUIgnored_r34 ==
    (call.name = "tryPassword" /\ call.returned) =>
        LET h == call.handler
            p == call.password
        IN  /\ h.m_R \in {3, 4} =>
                /\ \A tail \in Tails : tryPassword(WithTail(h, tail), p) = call.result
                /\ \A key \in {createFileEncryptionKey(h, p).value} :
                      SubSeq(createEntryValueU_r234(h, key).value, 17, 32) = TailOf(h)
            /\ (h.m_R = 2 /\ isAuthorized(call.result.data)) =>
                   RC4(call.result.data.fileEncryptionKey, PDFPasswordPadding) = h.m_U
            /\ (h.m_R = 2 /\ \E tail \in Tails \ {TailOf(h)} :
                                isAuthorized(tryPassword(WithTail(h, tail), p).data)) =>
                   ~isAuthorized(call.result.data)

\* The user password is accepted by a handler of revision 3 whose U does
\* not end in the bytes the writer left there.
TailOfUIgnored_r34Witness ==
    /\ call.name = "tryPassword"
    /\ call.returned
    /\ call.password = <<117>>
    /\ call.handler.m_R = 3
    /\ TailOf(call.handler) = SubSeq(PDFPasswordPadding, 1, 16)
    /\ call.result.result = "UserAuthorized"


RECURSIVE DigestTimes(_, _, _)
\* The digest of the first n bytes, taken `times` times over.
DigestTimes(key, n, times) ==
    IF times = 0 THEN key
    ELSE Local(MD5(SubSeq(key, 1, n)), LAMBDA next : DigestTimes(next, n, times - 1))

\* The file key as the algorithm describes it: the digest of the password
\* followed by the padding and cut to 32 bytes, O, the four bytes of P from
\* the least significant, the document ID and, when the metadata are not
\* encrypted, four bytes 255; for a revision from 3 the digest of the first
\* n bytes taken 50 times over; the first n bytes of the outcome.
DerivedKey(h, password, n) ==
    LET P == h.m_permissions
        low == <<P % 256, (P \div 256) % 256, (P \div 65536) % 256>>
        high == CHOOSE byte \in (IF P < 0 THEN 128..255 ELSE 0..127) :
                    low[1] + 256 * low[2] + 65536 * low[3]
                      + 16777216 * (byte - (IF P < 0 THEN 256 ELSE 0)) = P
        bytesOfP == Append(low, high)
        digest == MD5(SubSeq(password \o PDFPasswordPadding, 1, 32) \o h.m_O \o bytesOfP
                      \o h.m_ID \o (IF h.m_encryptMetadata THEN <<>> ELSE <<255, 255, 255, 255>>))
    IN  SubSeq(DigestTimes(digest, n, IF h.m_R = 2 THEN 0 ELSE 50), 1, n)

\* A key length above 128 bits gives an error and no key.
KeyAbove128BitsRejected ==
    (call.name = "createFileEncryptionKey" /\ call.returned /\ call.handler.m_keyLength > 128)
        => ~call.result.ok

\* C40: for the revisions 2, 3 and 4 the file key has keyLength / 8 bytes
\* (the quotient of the integer division) and is the prefix of the digest
\* of the padded password, O, P in 4 little-endian bytes, the document ID
\* and, only when EncryptMetadata is false, 0xFFFFFFFF, re-hashed over that
\* prefix 50 times for R >= 3 and not at all for R = 2; a key length whose
\* number of whole bytes is above 16, that is of 136 bits or more, gives
\* the error and no key, and a length of 129 to 135 bits gives a key of 16 bytes.
FileKeyIsDigestPrefix ==
    (call.name = "createFileEncryptionKey" /\ call.returned) =>
        LET h == call.handler
            n == h.m_keyLength \div 8
        IN  IF h.m_keyLength >= 136
            THEN call.result = Throw(KeyLengthError(n))
            ELSE /\ call.result.ok
                 /\ Len(call.result.value) = n
                 /\ call.result.value = DerivedKey(h, call.password, n)

\* A key of 5 bytes for a revision 3 document whose metadata are not
\* encrypted, from a password longer than 32 bytes.
FileKeyIsDigestPrefixWitness ==
    /\ call.name = "createFileEncryptionKey"
    /\ call.returned
    /\ call.handler.m_R = 3
    /\ ~call.handler.m_encryptMetadata
    /\ call.handler.m_keyLength = 44
    /\ Len(call.password) = 33
    /\ call.result.ok
    /\ Len(call.result.value) = 5


-----------------------------------------------------------------------------
(* Properties of authenticate *)

\* C8: when the password callback returns with the flag cleared,
\* authenticate returns Cancelled: the candidate it returned is not tested
\* and the callback is not invoked again.
ClearedFlagCancels ==
    /\ []((authPc \in {"returned", "thrown", "callback"} /\ ~passwordObtained)
            => (authPc = "returned" /\ returnValue = "Cancelled"))
    /\ [][(authPc = "loop" /\ ~passwordObtained)
            => /\ authPc' = "returned"
               /\ returnValue' = "Cancelled"
               /\ attempts' = attempts
               /\ callbackCalls' = callbackCalls]_vars

ClearedFlagCancelsWitness ==
    /\ authPc = "returned"
    /\ ~passwordObtained
    /\ returnValue = "Cancelled"
    /\ callbackCalls = 2
    /\ attempts = 2

\* C9: a standard handler whose revision is none of 2, 3, 4, 6 makes
\* authenticate return Failed in the first iteration of its loop, the
\* password callback never invoked.
OtherRevisionFailsAtOnce ==
    (handler.kind = "Standard" /\ handler.m_R \notin {2, 3, 4, 6}) =>
        /\ callbackCalls = 0
        /\ \/ authPc = "loop" /\ attempts = 0
           \/ authPc = "returned" /\ attempts = 1 /\ returnValue = "Failed"

OtherRevisionFailsAtOnceWitness ==
    /\ handler.kind = "Standard"
    /\ handler.m_R = 5
    /\ authPc = "returned"
    /\ returnValue = "Failed"

\* The owner check and the user check of revisions 2, 3 and 4, each on its
\* own: whether the candidate passes and the key the check derives.
OwnerCheck(h, p) ==
    Local(createFileEncryptionKey(h, createUserPasswordFromOwnerPassword(h, p).value).value,
          LAMBDA key : [passes |-> createEntryValueU_r234(h, key).value = h.m_U, key |-> key])

UserCheck(h, p) ==
    Local(createFileEncryptionKey(h, p).value,
          LAMBDA key : [passes |-> createEntryValueU_r234(h, key).value = h.m_U, key |-> key])

Checks ==
    {[handler |-> h, password |-> p, owner |-> OwnerCheck(h, p), user |-> UserCheck(h, p)] :
        h \in ProtectedHandlers, p \in Passwords}

CheckOf(h, p) == CHOOSE row \in Checks : row.handler = h /\ row.password = p

\* C10: for the revisions 2, 3 and 4 a candidate that passes the owner
\* check gives OwnerAuthorized and the key derived from the recovered user
\* password, even when it passes the user check too; a candidate that
\* passes the user check only gives UserAuthorized and the key derived
\* from the candidate; a candidate that passes neither is not authorized.
OwnerCheckedBeforeUser ==
    (handler \in ProtectedHandlers /\ authPc \in {"returned", "callback"} /\ passwordObtained) =>
        \E check \in {CheckOf(handler, currentPassword)} :
            IF check.owner.passes
            THEN /\ authPc = "returned"
                 /\ returnValue = "OwnerAuthorized"
                 /\ m_authorizationData =
                       [authorizationResult |-> "OwnerAuthorized",
                        fileEncryptionKey |-> check.owner.key]
            ELSE IF check.user.passes
            THEN /\ authPc = "returned"
                 /\ returnValue = "UserAuthorized"
                 /\ m_authorizationData =
                       [authorizationResult |-> "UserAuthorized",
                        fileEncryptionKey |-> check.user.key]
            ELSE /\ authPc = "callback"
                 /\ m_authorizationData = ClearedAuthorizationData

OwnerCheckedBeforeUserWitness ==
    /\ handler \in ProtectedHandlers
    /\ authPc = "returned"
    /\ passwordObtained
    /\ CheckOf(handler, currentPassword).owner.passes
    /\ CheckOf(handler, currentPassword).user.passes
    /\ returnValue = "OwnerAuthorized"

\* The candidate the loop tests in its iteration number attempts + 1: the
\* empty password in the first, afterwards the last answer of the provider.
CandidateInTurn ==
    IF callbackCalls = 0 THEN <<>> ELSE givenAnswers[callbackCalls].password

\* C30: authenticate tests the empty password first, before any invocation
\* of the provider, and invokes the provider exactly once after each failed
\* attempt, testing the answers one at a time in the order they were given:
\* at the head of the loop the attempts equal the invocations and the
\* candidate is the last answer, after an attempt that failed, threw or was
\* accepted the attempts are one more than the invocations, and a handler
\* that accepts the empty password never has its provider invoked.
ProviderOncePerFailedAttempt ==
    /\ callbackCalls = Len(givenAnswers)
    /\ authPc = "loop" => (attempts = callbackCalls /\ currentPassword = CandidateInTurn)
    /\ authPc \in {"callback", "thrown"} => attempts = callbackCalls + 1
    /\ (authPc = "returned" /\ isAuthorized(m_authorizationData)) =>
            (attempts = callbackCalls + 1 /\ currentPassword = CandidateInTurn)
    /\ isAuthorized(Try(handler, <<>>).data) => callbackCalls = 0

\* The third candidate tested is accepted after two invocations of the
\* provider that gave two different candidates.
ProviderOncePerFailedAttemptWitness ==
    /\ authPc = "returned"
    /\ isAuthorized(m_authorizationData)
    /\ attempts = 3
    /\ callbackCalls = 2
    /\ givenAnswers[1].password # givenAnswers[2].password


\* An iteration of the loop after the attempts have passed the counter's
\* bound: the same step, the counter left as it is.
AuthIterateOver ==
    /\ authPc = "loop"
    /\ attempts > MaxAttempts
    /\ whileCondition(passwordObtained)
    /\ \E t \in {Try(handler, currentPassword)} :
           /\ m_authorizationData' = IF isAuthorized(t.data) THEN t.data ELSE m_authorizationData
           /\ authPc' = afterSwitch(t.end)
           /\ returnValue' = IF t.end = "return" THEN t.result ELSE returnValue
    /\ UNCHANGED <<handler, currentPassword, passwordObtained, callbackCalls, hashState,
                   readerVars, givenAnswers, firstRun, attempts>>

\* An invocation of the provider after the invocations have reached the
\* counter's bound: it answers as before, the counter and the record of the
\* answers left as they are.
AuthCallbackOver ==
    /\ authPc = "callback"
    /\ callbackCalls = MaxAttempts
    /\ \E a \in Answers :
          /\ currentPassword' = a.password
          /\ passwordObtained' = a.obtained
    /\ authPc' = "loop"
    /\ UNCHANGED <<handler, m_authorizationData, returnValue, attempts, hashState, readerVars,
                   firstRun, givenAnswers, callbackCalls>>

\* An iteration while the attempts are within the counter's bound.
AuthIterateUnder ==
    /\ attempts <= MaxAttempts
    /\ AuthIterate

NextLoop ==
    \/ AuthIterateUnder
    \/ AuthIterateOver
    \/ AuthCancelled
    \/ AuthCallback
    \/ AuthCallbackOver

\* authenticate with a provider that may be asked any number of times; the
\* calling thread runs the function on, and the provider answers each call.
SpecLoop == InitAuth /\ [][NextLoop]_vars /\ WF_vars(NextLoop)

\* The candidate in hand is accepted, or the provider has cleared the flag.
ProviderEnds ==
    \/ ~passwordObtained
    \/ isAuthorized(Try(handler, currentPassword).data)

AuthAnew ==
    /\ authPc \in {"returned", "thrown"}
    /\ firstRun = NoRun
    /\ firstRun' = [handler |-> handler, answers |-> <<>>, end |-> authPc,
                    returnValue |-> returnValue, data |-> m_authorizationData,
                    calls |-> callbackCalls]
    /\ currentPassword' = <<>>
    /\ passwordObtained' = TRUE
    /\ m_authorizationData' = clearAuthorizationData(m_authorizationData)
    /\ authPc' = "loop"
    /\ returnValue' = "none"
    /\ attempts' = 0
    /\ hashState' = NoHash
    /\ givenAnswers' = <<>>
    /\ callbackCalls' = 0
    /\ UNCHANGED <<readerVars, handler>>

NextAnew == AuthIterate \/ AuthCancelled \/ AuthCallback \/ AuthAnew

SpecAnew == InitAuth /\ [][NextAnew]_vars

\* C32: after a call of authenticate has returned, the stored key is not
\* empty only if the stored result is OwnerAuthorized or UserAuthorized, and
\* the stored result is the returned one then; after a call that returned
\* Cancelled or Failed the stored data are the cleared ones, whatever an
\* earlier call on the handler left.
KeyOnlyWhenAuthorized ==
    authPc = "returned" =>
        /\ m_authorizationData.fileEncryptionKey # <<>> =>
              (isAuthorized(m_authorizationData)
               /\ m_authorizationData.authorizationResult = returnValue)
        /\ returnValue \in {"Cancelled", "Failed"} =>
              m_authorizationData = ClearedAuthorizationData

\* A first call left a key, the second call on the handler ended cancelled
\* or failed.
KeyOnlyWhenAuthorizedWitness ==
    /\ firstRun # NoRun
    /\ authPc = "returned"
    /\ firstRun.end = "returned"
    /\ isAuthorized(firstRun.data)
    /\ firstRun.data.fileEncryptionKey # <<>>
    /\ returnValue = "Cancelled"


\* What holds at every point of a call of createHash_r6.
HashLoopBounds ==
    call.name = "createHash_r6" =>
        /\ call.round <= 287
        /\ Len(call.K) >= 32
        /\ ~call.returned => (hashContinues(call) # hashStops(call))
        /\ call.returned =>
              /\ call.round >= 64
              /\ call.round >= call.back + 32
              /\ call.result = SubSeq(call.K, 1, 32)

\* A round is run only while fewer than 64 rounds were run or the last byte
\* of the E of the round before plus 32 is above their number.
RoundOnlyBeforeStop ==
    (call.name = "createHash_r6" /\ call'.round = call.round + 1) =>
        (call.round < 64 \/ call.round < call.back + 32)

\* C38: the loop of createHash_r6 always ends, after at least 64 and at most
\* 287 rounds, at the first number of rounds r with r >= 64 and
\* r >= (last byte of the E of round r) + 32; the test never depends on an
\* E that no round has produced; K has at least 32 bytes in every round and
\* the result is the first 32 bytes of the last K.
HashLoopEnds ==
    /\ []HashLoopBounds
    /\ [][RoundOnlyBeforeStop]_vars
    /\ (call.name = "createHash_r6") ~> (call.name = "createHash_r6" /\ call.returned)

\* A call has returned after more than 64 rounds: the last byte of E has
\* kept the loop running.
HashLoopEndsWitness ==
    /\ call.name = "createHash_r6"
    /\ call.returned
    /\ call.round > 64
    /\ call.round = call.back + 32
    /\ Len(call.result) = 32


RECURSIVE BigEndianModulo(_, _, _, _)
\* The bytes 1..n of E read as an unsigned big-endian number, modulo m:
\* the value of the bytes before the last times 256, plus the last byte.
BigEndianModulo(E, n, m, value) ==
    IF n = 0 THEN value % m
    ELSE BigEndianModulo(SubSeq(E, 2, Len(E)), n - 1, m, (value * 256 + E[1]) % m)

\* C39: the remainder that a round of the revision 6 hash accumulates bit
\* by bit, with the weights 1, 2, 1, 2, ... from the least significant bit
\* of each byte, over the first 16 bytes of E equals the value of those 16
\* bytes, read as an unsigned 128-bit big-endian number, modulo 3; the
\* remainder 0, 1, 2 chooses the digest of 256, 384 and 512 bits.
RemainderIsValueModulo3 ==
    (call.name = "remainder" /\ call.returned) =>
        LET r == BigEndianModulo(call.E, 16, 3, 0)
        IN  /\ call.result.remainderAccumulator = r
            /\ r = 0 => call.result.K = SHA256(call.E) /\ Len(call.result.K) * 8 = 256
            /\ r = 1 => call.result.K = SHA384(call.E) /\ Len(call.result.K) * 8 = 384
            /\ r = 2 => call.result.K = SHA512(call.E) /\ Len(call.result.K) * 8 = 512

\* The last byte is 3 and the others are 0: two bits are set, the value is
\* a multiple of 3 and the digest of 256 bits is chosen.
RemainderIsValueModulo3Witness ==
    /\ call.name = "remainder"
    /\ call.returned
    /\ call.E = Zeros(15) \o <<3>>
    /\ call.result.remainderAccumulator = 0
    /\ Len(call.result.K) = 32


-----------------------------------------------------------------------------
(* Properties of authenticate, revision 6 *)

\* C11: for revision 6 a candidate that passes the owner check is given
\* the key decrypted (CBC, zero initialization vector) from OE, and a
\* candidate that fails the owner check and passes the user check is given
\* the key decrypted from UE, each under the key hashed from the candidate
\* and the key salt.
UserKeyDecryptedFromUE ==
    (handler.m_R = 6 /\ authPc = "returned" /\ returnValue # "Cancelled") =>
        m_authorizationData.fileEncryptionKey =
            AES_cbc_decrypt(IF returnValue = "OwnerAuthorized" THEN handler.m_OE
                            ELSE handler.m_UE,
                            hashResult(hashState), ZeroVector)

-----------------------------------------------------------------------------
(* Properties of two calls of authenticate *)

\* The fields of the handler named as the encryption descriptor.
Descriptor(h) ==
    [R |-> h.m_R, keyLength |-> h.m_keyLength, O |-> h.m_O, U |-> h.m_U,
     P |-> h.m_permissions, ID |-> h.m_ID, encryptMetadata |-> h.m_encryptMetadata]

\* The descriptor and, for revision 6, the OE entry.
DescriptorAndOE(h) == [descriptor |-> Descriptor(h), OE |-> IF h.m_R = 6 THEN h.m_OE ELSE <<>>]

\* The second call ended as the first did: the same return or exception, the
\* same authorization data (result and file encryption key), the same number
\* of provider invocations.
EndedAlike ==
    /\ authPc = firstRun.end
    /\ returnValue = firstRun.returnValue
    /\ m_authorizationData = firstRun.data
    /\ callbackCalls = firstRun.calls
    /\ givenAnswers = firstRun.answers

\* C12 (as stated): two calls of authenticate on handlers with the same
\* R, key length, O, U, P, document ID and EncryptMetadata, the provider
\* answering the same, end with the same outcome, the same file encryption
\* key and the same number of provider invocations.
SameDescriptorSameOutcome ==
    (firstRun # NoRun /\ authPc \in {"returned", "thrown"}
     /\ Descriptor(handler) = Descriptor(firstRun.handler)) => EndedAlike

\* C12 (amended): the same holds when, for revision 6, the OE entries of
\* the two handlers are the same as well.
SameDescriptorAndOESameOutcome ==
    (firstRun # NoRun /\ authPc \in {"returned", "thrown"}
     /\ DescriptorAndOE(handler) = DescriptorAndOE(firstRun.handler)) => EndedAlike

SameDescriptorAndOESameOutcomeWitness ==
    /\ firstRun # NoRun
    /\ authPc = "returned"
    /\ handler # firstRun.handler
    /\ DescriptorAndOE(handler) = DescriptorAndOE(firstRun.handler)
    /\ returnValue = "OwnerAuthorized"
    /\ callbackCalls = 2

\* The U entry of h is the one computed from the file encryption key of the
\* candidate p, h of revision 2, 3 or 4.
StoredUMatches(h, p) ==
    /\ h.m_R \in {2, 3, 4}
    /\ createFileEncryptionKey(h, p).ok
    /\ createEntryValueU_r234(h, createFileEncryptionKey(h, p).value).value = h.m_U

\* C13: for the revisions 2, 3 and 4, when the stored U equals the U
\* computed from the file key of the candidate, the attempt with that
\* candidate returns OwnerAuthorized or UserAuthorized (the provider is not
\* invoked again), and a second call on the same handler returns the same.
StoredUAuthorizes ==
    (authPc \in {"returned", "callback", "thrown"} /\ passwordObtained
     /\ StoredUMatches(handler, currentPassword)) =>
        /\ authPc = "returned"
        /\ returnValue \in {"OwnerAuthorized", "UserAuthorized"}
        /\ m_authorizationData.authorizationResult = returnValue
        /\ (firstRun # NoRun /\ handler = firstRun.handler) =>
               /\ firstRun.end = "returned"
               /\ firstRun.returnValue = returnValue

StoredUAuthorizesWitness ==
    /\ authPc = "returned"
    /\ passwordObtained
    /\ StoredUMatches(handler, currentPassword)
    /\ returnValue = "UserAuthorized"
    /\ firstRun # NoRun
    /\ handler = firstRun.handler
    /\ callbackCalls = 1

-----------------------------------------------------------------------------
(* Properties of readXRefTable *)

\* The positions in the walk of the sections that declare object n.
DeclaringVisits(walk, n) ==
    {i \in 1..Len(walk.visited) : n \in walk.file[walk.visited[i]].declares}

Newest(positions) == CHOOSE i \in positions : \A j \in positions : i <= j

\* C14: while and after the chained sections are walked from the initial
\* offset through the previous-section links, the merged table holds, for
\* every object number declared by a section visited, the entry of the
\* first section visited that declares it, and the trailer kept is the
\* trailer of the first section visited.
NewestSectionWins ==
    resolver.pc \in {"walk", "done", "failed"} =>
        /\ \A n \in SectionObjects :
              IF DeclaringVisits(resolver, n) = {}
              THEN n \notin DOMAIN resolver.entries
              ELSE /\ n \in DOMAIN resolver.entries
                   /\ resolver.entries[n] =
                         SectionEntry(resolver.visited[Newest(DeclaringVisits(resolver, n))], n)
        /\ resolver.visited # <<>> =>
              resolver.trailer = SectionTrailer(resolver.file, resolver.visited[1])

\* Section A at 1000 declares object 5 at byte 200, its predecessor B at 50
\* declares it at byte 80: object 5 resolves to byte 200.
NewestSectionWinsWitness ==
    /\ resolver.pc = "done"
    /\ resolver.visited = <<1000, 50>>
    /\ 5 \in resolver.file[1000].declares
    /\ 5 \in resolver.file[50].declares
    /\ ByteOf(50, 5) = 80
    /\ resolver.entries[5].offset = 200

====
